---- MODULE Spec2Model ----
(***************************************************************************)
(* A model of rapyer's transactional atomic-mutation engine:               *)
(*   - the transaction scope  AtomicRedisModel.apipeline / apipeline       *)
(*     (src/rapyer/base.py), the field wrappers that buffer commands into  *)
(*     it (src/rapyer/types/integer.py, AtomicRedisModel.__setattr__),     *)
(*   - the script registry and its NOSCRIPT recovery                       *)
(*     (src/rapyer/scripts/registry.py),                                   *)
(*   - concurrent remote-immediate increments (RedisInt.aincrease),        *)
(*   - nested scopes, operators applied outside a scope, remove_range      *)
(*     over all indices (src/rapyer/scripts.py),                           *)
(*   - the TTL policy of the read and write paths (src/rapyer/base.py,     *)
(*     src/rapyer/types/priority_queue.py),                                *)
(*   - batched deletion (src/rapyer/utils/redis.py).                       *)
(*   - the integer operators applied inside a scope                        *)
(*     (src/rapyer/types/integer.py, src/rapyer/scripts.py),               *)
(*   - the arguments of AtomicRedisModel.adelete_many and the multi-key    *)
(*     reads rapyer.afind and AtomicRedisModel.afind (src/rapyer/base.py), *)
(*   - the priority queue and the map field                                *)
(*     (src/rapyer/types/priority_queue.py, src/rapyer/types/dct.py),      *)
(*   - loading pickled fields under the tolerant and the strict policy,    *)
(*   - alock scopes and the context variable of concurrent tasks           *)
(*     (src/rapyer/utils/redis.py, src/rapyer/context.py).                 *)
(* The document store is modelled by what the issued commands do to one    *)
(* JSON document with an integer field n and a list field tags.            *)
(***************************************************************************)
EXTENDS Integers, Sequences, FiniteSets, TLC

\* ------------------------------------------------------------------ bounds
MaxOps == 2
MaxScriptFlush == 1
MaxTasks == 4

\* ------------------------------------------------- values of the inputs
InitialN == 3
InitialTags == <<1, 2, 3>>
NewTag == 6
AddOperands == {1}
MulOperands == {2}
SetValues == {5}
Ranges == {<<1, 3>>, <<-1, 5>>}

\* ---------------------------------------------------------- script catalog
\* SCRIPT_REGISTRY: the names of the server-side scripts this model uses.
ScriptNames == {"num_mul", "remove_range"}

\* SCRIPT LOAD returns the SHA1 of the script text: a function of the script.
ScriptSha(name) == <<"sha", name>>

AllShas == {ScriptSha(name) : name \in ScriptNames}

NoSha == <<>>

VARIABLES
    store,          \* the stored document: [exists, n, tags]
    serverScripts,  \* SHAs in the server's script cache
    shaCache,       \* _REGISTERED_SCRIPT_SHAS: script name -> SHA or NoSha
    ctx,            \* value of the context variable _context_var of the task
    pc,             \* position of the task in the transaction scope
    cfg,            \* [ignore: ignore_redis_error, refresh: Meta.should_refresh()]
    localN,         \* in-process value of redis_model.n
    buf,            \* pipe.command_stack of the scope's pipeline
    err,            \* exception with which the scope was left ("none" if none)
    applied,        \* per buffered command: times the server applied it
    opsLog,         \* the operations of the body, in program order
    loaded,         \* the document as fetched by aget at scope entry
    atExec,         \* the stored document when the flush reached the server
    flushes,        \* SCRIPT FLUSH count, and whether one hit the open scope
    sawNoScript,    \* the flush's execute() raised NoScriptError
    lastRead,       \* the last read issued outside the scope
    later,          \* what happened to an operation issued after the scope
    stale,          \* commands recorded into the pipeline after the scope ended
    sha,            \* state of an immediate scripted call (arun_sha)
    inc,            \* state of the concurrent aincrease tasks
    outside,        \* operators applied to the instance with no scope active
    ttl,            \* expiries of the keys of one document type (TTL policy)
    del,            \* state of one batched deletion (delete_in_batches)
    nest,           \* two nested transaction scopes
    call,           \* one call of adelete_many or afind with its arguments
    num,            \* one integer operator applied inside a scope
    coll,           \* one priority-queue field and one map field of a document
    par             \* concurrent tasks: their locks and context variables

\* The variables of the sub-models that the transaction scope never touches.
ExtVars == <<ttl, del, nest, call, num, coll, par>>

vars == <<store, serverScripts, shaCache, ctx, pc, cfg, localN, buf, err,
          applied, opsLog, loaded, atExec, flushes, sawNoScript, lastRead,
          later, stale, sha, inc, outside, ExtVars>>

\* ------------------------------------------------------- the document store
Doc(e, n, t) == [exists |-> e, n |-> n, tags |-> t]

\* Mutant: a negative start is clamped to 0 without being offset by n.
LuaStartNotOffset(n, s) == IF s < 0 THEN 0 ELSE s

\* _REMOVE_RANGE_SCRIPT_TEMPLATE: the index arithmetic of the Lua script.
LuaStart(n, s) ==
    LET s1 == IF s < 0 THEN n + s ELSE s
    IN  IF s1 < 0 THEN 0 ELSE s1

LuaEnd(n, e) ==
    LET e1 == IF e < 0 THEN n + e ELSE e
        e2 == IF e1 < 0 THEN 0 ELSE e1
    IN  IF e2 > n THEN n ELSE e2

RemoveRangeScript(arr, s, e) ==
    LET n  == Len(arr)
        s1 == LuaStart(n, s)
        e1 == LuaEnd(n, e)
    IN  IF s1 >= n \/ s1 >= e1
        THEN arr
        ELSE SubSeq(arr, 1, s1) \o SubSeq(arr, e1 + 1, n)

\* _NUM_MUL_SCRIPT_TEMPLATE: result = value * operand, written back.
NumMulScript(value, operand) == value * operand

\* Commands as they sit in pipe.command_stack.
CmdIncr(k)     == [op |-> "NUMINCRBY", sha |-> NoSha, a |-> k, b |-> 0]
CmdSet(v)      == [op |-> "SET", sha |-> NoSha, a |-> v, b |-> 0]
CmdAppend(x)   == [op |-> "ARRAPPEND", sha |-> NoSha, a |-> x, b |-> 0]
CmdEval(name, h, a, b) == [op |-> name, sha |-> h, a |-> a, b |-> b]

IsScript(cmd) == cmd.sha # NoSha

\* What the server does with one command: the new document and the reply.
\*   "ok"       applied
\*   "nil"      script ran, found no value at the path, changed nothing
\*   "NOSCRIPT" EVALSHA of a SHA the server does not know
\*   "ERR"      a JSON command on a key that does not exist
ServerApply(d, cmd, scripts) ==
    IF IsScript(cmd)
    THEN IF cmd.sha \notin scripts
         THEN [doc |-> d, res |-> "NOSCRIPT"]
         ELSE IF ~d.exists
         THEN [doc |-> d, res |-> "nil"]
         ELSE IF cmd.op = "num_mul"
         THEN [doc |-> [d EXCEPT !.n = NumMulScript(d.n, cmd.a)], res |-> "ok"]
         ELSE [doc |-> [d EXCEPT !.tags = RemoveRangeScript(d.tags, cmd.a, cmd.b)],
               res |-> "ok"]
    ELSE IF ~d.exists
         THEN [doc |-> d, res |-> "ERR"]
         ELSE IF cmd.op = "NUMINCRBY"
         THEN [doc |-> [d EXCEPT !.n = d.n + cmd.a], res |-> "ok"]
         ELSE IF cmd.op = "SET"
         THEN [doc |-> [d EXCEPT !.n = cmd.a], res |-> "ok"]
         ELSE [doc |-> [d EXCEPT !.tags = Append(d.tags, cmd.a)], res |-> "ok"]

\* MULTI ... EXEC: the queued commands run in order, none interleaved with
\* another client; a command that fails does not undo or stop the others.
RECURSIVE ExecTxFrom(_, _, _, _)
ExecTxFrom(d, cmds, scripts, i) ==
    IF i > Len(cmds)
    THEN [doc |-> d, res |-> <<>>]
    ELSE LET r    == ServerApply(d, cmds[i], scripts)
             rest == ExecTxFrom(r.doc, cmds, scripts, i + 1)
         IN  [doc |-> rest.doc, res |-> <<r.res>> \o rest.res]

\* Mutant: the command stack is sent a second time after it ran.
ExecTxReplayed(d, cmds, scripts) ==
    LET first  == ExecTxFrom(d, cmds, scripts, 1)
        second == ExecTxFrom(first.doc, cmds, scripts, 1)
    IN  [doc |-> second.doc, res |-> first.res \o second.res]

\* Mutant: the server runs the queued commands last to first.
ExecTxReversed(d, cmds, scripts) ==
    LET n   == Len(cmds)
        rev == [i \in 1..n |-> cmds[n + 1 - i]]
        r   == ExecTxFrom(d, rev, scripts, 1)
    IN  [doc |-> r.doc, res |-> [i \in 1..n |-> r.res[n + 1 - i]]]

ExecTx(d, cmds, scripts) == ExecTxFrom(d, cmds, scripts, 1)

\* execute() raises the first error of the replies (raise_first_error).
FirstError(res) ==
    IF \E i \in 1..Len(res) : res[i] \in {"NOSCRIPT", "ERR"}
    THEN LET i == CHOOSE j \in 1..Len(res) :
                      /\ res[j] \in {"NOSCRIPT", "ERR"}
                      /\ \A k \in 1..(j - 1) : res[k] \notin {"NOSCRIPT", "ERR"}
         IN  res[i]
    ELSE "none"

\* How often the server ran each command to completion in one EXEC.
Counted(res) ==
    [i \in 1..Len(res) |-> IF res[i] \in {"ok", "nil"} THEN 1 ELSE 0]

\* ------------------------------------------- the wrappers' local semantics
\* What Python computes for the operations of a body, applied in program
\* order to the document fetched at scope entry.
PyStart(n, s) ==
    IF s < 0 THEN (IF n + s < 0 THEN 0 ELSE n + s)
             ELSE (IF s > n THEN n ELSE s)

\* del lst[s:e]
PySliceDelete(lst, s, e) ==
    LET n  == Len(lst)
        lo == PyStart(n, s)
        hi == PyStart(n, e)
    IN  IF lo >= hi
        THEN lst
        ELSE [i \in 1..(n - (hi - lo)) |->
                 IF i <= lo THEN lst[i] ELSE lst[i + (hi - lo)]]

PyApply(d, o) ==
    IF o.kind = "iadd" THEN [d EXCEPT !.n = d.n + o.a]
    ELSE IF o.kind = "imul" THEN [d EXCEPT !.n = d.n * o.a]
    ELSE IF o.kind = "set" THEN [d EXCEPT !.n = o.a]
    ELSE IF o.kind = "append" THEN [d EXCEPT !.tags = d.tags \o <<o.a>>]
    ELSE [d EXCEPT !.tags = PySliceDelete(d.tags, o.a, o.b)]

RECURSIVE PyFold(_, _, _)
PyFold(d, ops, i) ==
    IF i > Len(ops) THEN d ELSE PyFold(PyApply(d, ops[i]), ops, i + 1)

Op(kind, a, b) == [kind |-> kind, a |-> a, b |-> b]

\* ---------------------------------------------------- the transaction scope
\* Mutant: the wrapper also sends its commands to the server at once.
IssueImmediately(cmds) ==
    /\ buf' = buf \o cmds
    /\ store' = ExecTx(store, cmds, serverScripts).doc

\* A wrapper that finds a pipeline in the context records its commands on
\* that pipeline; nothing reaches the server.
Issue(cmds) ==
    /\ buf' = buf \o cmds
    /\ store' = store

\* get_script: the cached handle of a script.
GetScript(name) == shaCache[name]

CanBuffer == pc = "open" /\ Len(opsLog) < MaxOps

\* apipeline, entry: a transactional pipeline is created and becomes the
\* ambient handle of the task.
Enter ==
    /\ pc = "idle"
    /\ pc' = "entered"
    /\ ctx' = "pipe"
    /\ buf' = <<>>
    /\ UNCHANGED <<store, serverScripts, shaCache, cfg, localN, err, applied,
                   opsLog, loaded, atExec, flushes, sawNoScript, lastRead,
                   later, stale, sha, inc,
                   outside, ExtVars>>

\* Mutant: the scope keeps the values the instance held in process.
ReloadKeepsLocal(local, stored) == local

\* self.__dict__.update(unset_fields): every field of the instance takes the
\* value aget has just fetched.
Reloaded(local, stored) == stored

\* Mutant: KeyNotFound at scope entry is always swallowed.
MissingKeyAlwaysRunsBody(ignore) == TRUE

\* except (TypeError, KeyNotFound): redis_model = self under
\* ignore_redis_error, else the exception is raised again.
MissingKeyRunsBody(ignore) == ignore

\* AtomicRedisModel.apipeline, before the body: the instance is reloaded
\* from the store with aget; KeyNotFound is kept only under ignore_redis_error.
Load ==
    /\ pc = "entered"
    /\ loaded' = store
    /\ outside' = [outside EXCEPT
                      !.atEntry = localN,
                      !.yielded = IF store.exists THEN "fetched"
                                  ELSE IF MissingKeyRunsBody(cfg.ignore)
                                  THEN "self" ELSE "none"]
    /\ IF store.exists
       THEN /\ localN' = Reloaded(localN, store.n)
            /\ pc' = "open"
            /\ err' = err
       ELSE IF MissingKeyRunsBody(cfg.ignore)
       THEN /\ localN' = localN
            /\ pc' = "open"
            /\ err' = err
       ELSE /\ localN' = localN
            /\ pc' = "raised"
            /\ err' = "KeyNotFound"
    /\ UNCHANGED <<store, serverScripts, shaCache, ctx, cfg, buf, applied,
                   opsLog, atExec, flushes, sawNoScript, lastRead, later,
                   stale, sha, inc, ExtVars>>

\* redis_model.n += k : RedisInt.__iadd__, then __setattr__ of the result.
BodyIAdd(k) ==
    /\ CanBuffer
    /\ Issue(<<CmdIncr(k), CmdSet(localN + k)>>)
    /\ localN' = localN + k
    /\ opsLog' = Append(opsLog, Op("iadd", k, 0))
    /\ UNCHANGED <<serverScripts, shaCache, ctx, pc, cfg, err, applied, loaded,
                   atExec, flushes, sawNoScript, lastRead, later, stale, sha,
                   inc,
                   outside, ExtVars>>

\* redis_model.n *= k : RedisInt.__imul__ (run_sha), then __setattr__.
BodyIMul(k) ==
    /\ CanBuffer
    /\ GetScript("num_mul") # NoSha
    /\ Issue(<<CmdEval("num_mul", GetScript("num_mul"), k, 0),
               CmdSet(localN * k)>>)
    /\ localN' = localN * k
    /\ opsLog' = Append(opsLog, Op("imul", k, 0))
    /\ UNCHANGED <<serverScripts, shaCache, ctx, pc, cfg, err, applied, loaded,
                   atExec, flushes, sawNoScript, lastRead, later, stale, sha,
                   inc,
                   outside, ExtVars>>

\* redis_model.n = v : AtomicRedisModel.__setattr__ with a pipeline in context.
BodySetAttr(v) ==
    /\ CanBuffer
    /\ Issue(<<CmdSet(v)>>)
    /\ localN' = v
    /\ opsLog' = Append(opsLog, Op("set", v, 0))
    /\ UNCHANGED <<serverScripts, shaCache, ctx, pc, cfg, err, applied, loaded,
                   atExec, flushes, sawNoScript, lastRead, later, stale, sha,
                   inc,
                   outside, ExtVars>>

\* redis_model.tags.append(x) : one native JSON.ARRAPPEND.
BodyAppend(x) ==
    /\ CanBuffer
    /\ Issue(<<CmdAppend(x)>>)
    /\ opsLog' = Append(opsLog, Op("append", x, 0))
    /\ UNCHANGED <<serverScripts, shaCache, ctx, pc, cfg, localN, err, applied,
                   loaded, atExec, flushes, sawNoScript, lastRead, later, stale,
                   sha, inc,
                   outside, ExtVars>>

\* redis_model.tags.remove_range(s, e) : one EVALSHA of the remove_range script.
BodyRemoveRange(s, e) ==
    /\ CanBuffer
    /\ GetScript("remove_range") # NoSha
    /\ Issue(<<CmdEval("remove_range", GetScript("remove_range"), s, e)>>)
    /\ opsLog' = Append(opsLog, Op("rr", s, e))
    /\ UNCHANGED <<serverScripts, shaCache, ctx, pc, cfg, localN, err, applied,
                   loaded, atExec, flushes, sawNoScript, lastRead, later, stale,
                   sha, inc,
                   outside, ExtVars>>

\* Mutant: the flush sits in a finally block and runs although the body raised.
BodyRaiseThenFlush ==
    /\ pc = "open"
    /\ pc' = "raised"
    /\ err' = "BodyError"
    /\ store' = ExecTx(store, buf, serverScripts).doc
    /\ applied' = Counted(ExecTx(store, buf, serverScripts).res)
    /\ UNCHANGED <<serverScripts, shaCache, ctx, cfg, localN, buf, opsLog,
                   loaded, atExec, flushes, sawNoScript, lastRead, later,
                   stale, sha, inc,
                   outside, ExtVars>>

\* The body raises: the exception is thrown into both generators at their
\* yield, so nothing after the yield runs; leaving the pipeline's own
\* "async with" resets the pipeline without sending anything.
BodyRaise ==
    /\ pc = "open"
    /\ pc' = "raised"
    /\ err' = "BodyError"
    /\ UNCHANGED <<store, serverScripts, shaCache, ctx, cfg, localN, buf,
                   applied, opsLog, loaded, atExec, flushes, sawNoScript,
                   lastRead, later, stale, sha, inc,
                   outside, ExtVars>>

\* Mutant: the flush runs although the task was cancelled.
CancelThenFlush ==
    /\ pc = "open"
    /\ pc' = "raised"
    /\ err' = "CancelledError"
    /\ store' = ExecTx(store, buf, serverScripts).doc
    /\ applied' = Counted(ExecTx(store, buf, serverScripts).res)
    /\ UNCHANGED <<serverScripts, shaCache, ctx, cfg, localN, buf, opsLog,
                   loaded, atExec, flushes, sawNoScript, lastRead, later,
                   stale, sha, inc, outside, ExtVars>>

\* The task is cancelled while the body is suspended at an await:
\* CancelledError is thrown into the generators at their yield like any other
\* exception, and the pipeline is reset unsent.
Cancel ==
    /\ pc = "open"
    /\ pc' = "raised"
    /\ err' = "CancelledError"
    /\ UNCHANGED <<store, serverScripts, shaCache, ctx, cfg, localN, buf,
                   applied, opsLog, loaded, atExec, flushes, sawNoScript,
                   lastRead, later, stale, sha, inc, outside, ExtVars>>

\* AtomicRedisModel.apipeline after the body, for a type that refreshes its
\* TTL: "pipe.expire(...)" names a variable the method never bound.
RefreshAtExit ==
    /\ pc = "open"
    /\ cfg.refresh
    /\ pc' = "raised"
    /\ err' = "NameError"
    /\ UNCHANGED <<store, serverScripts, shaCache, ctx, cfg, localN, buf,
                   applied, opsLog, loaded, atExec, flushes, sawNoScript,
                   lastRead, later, stale, sha, inc,
                   outside, ExtVars>>

\* apipeline after the body: pipe.execute() and what follows it.
\*   no error        -> _context_var.set(pipe_prev): the context variable now
\*                      holds the Token that the first set() returned
\*   NoScriptError   -> noscript_on_first_attempt; the recovery block starts by
\*                      evaluating self.Meta.redis, and the function has no self
\*   ResponseError   -> re-raised, or (ignore_redis_error) logged with
\*                      getattr(self, ...), again without a self
Flush ==
    /\ pc = "open"
    /\ ~cfg.refresh
    /\ LET r  == ExecTx(store, buf, serverScripts)
           fe == FirstError(r.res)
       IN  /\ store' = r.doc
           /\ applied' = Counted(r.res)
           /\ atExec' = store
           /\ sawNoScript' = (fe = "NOSCRIPT")
           /\ IF fe = "none"
              THEN /\ pc' = "closed"
                   /\ ctx' = "token"
                   /\ err' = "none"
              ELSE /\ pc' = "raised"
                   /\ ctx' = ctx
                   /\ err' = IF fe = "NOSCRIPT" THEN "NameError"
                             ELSE IF cfg.ignore THEN "NameError"
                             ELSE "ResponseError"
    /\ UNCHANGED <<serverScripts, shaCache, cfg, localN, buf, opsLog, loaded,
                   flushes, lastRead, later, stale, sha, inc,
                   outside, ExtVars>>

\* model.n = v after the scope was left: __setattr__ consults the context
\* variable again.
LaterSetAttr(v) ==
    /\ pc \in {"closed", "raised"}
    /\ later = "none"
    /\ IF ctx = "pipe"
       THEN /\ stale' = Append(stale, CmdSet(v))
            /\ later' = "buffered"
       ELSE IF ctx = "token"
       THEN /\ stale' = stale
            /\ later' = "AttributeError"
       ELSE /\ stale' = stale
            /\ later' = "local"
    /\ UNCHANGED <<store, serverScripts, shaCache, ctx, pc, cfg, localN, buf,
                   err, applied, opsLog, loaded, atExec, flushes, sawNoScript,
                   lastRead, sha, inc,
                   outside, ExtVars>>

\* --------------------------------------------------------- the environment
\* Another task reads the document with aget: it uses Meta.redis, never the
\* pipeline of the scope.
Read ==
    /\ \/ /\ pc = "open"
          /\ lastRead' = [lastRead EXCEPT !.during = TRUE,
                                          !.nbuf = Len(buf),
                                          !.ddoc = store]
       \/ /\ pc \in {"closed", "raised"}
          /\ ~lastRead.after
          /\ lastRead' = [lastRead EXCEPT !.after = TRUE, !.adoc = store]
    /\ lastRead' # lastRead
    /\ UNCHANGED <<store, serverScripts, shaCache, ctx, pc, cfg, localN, buf,
                   err, applied, opsLog, loaded, atExec, flushes, sawNoScript,
                   later, stale, sha, inc,
                   outside, ExtVars>>

\* SCRIPT FLUSH, or a server restart: the server forgets every script.
ScriptFlush ==
    /\ pc \in {"idle", "entered", "open"}
    /\ flushes.count < MaxScriptFlush
    /\ serverScripts' = {}
    /\ flushes' = [count |-> flushes.count + 1,
                   open  |-> flushes.open \/ pc \in {"entered", "open"}]
    /\ UNCHANGED <<store, shaCache, ctx, pc, cfg, localN, buf, err, applied,
                   opsLog, loaded, atExec, sawNoScript, lastRead, later, stale,
                   sha, inc,
                   outside, ExtVars>>

\* Another client deletes the document.
Delete ==
    /\ pc \in {"idle", "entered", "open"}
    /\ store.exists
    /\ store' = [store EXCEPT !.exists = FALSE]
    /\ UNCHANGED <<serverScripts, shaCache, ctx, pc, cfg, localN, buf, err,
                   applied, opsLog, loaded, atExec, flushes, sawNoScript,
                   lastRead, later, stale, sha, inc,
                   outside, ExtVars>>

NoDoc == Doc(FALSE, 0, <<>>)

NoRead == [during |-> FALSE, nbuf |-> 0, ddoc |-> NoDoc,
           after |-> FALSE, adoc |-> NoDoc]

ShaIdle == [pc |-> "off", operand |-> 0, attempts |-> 0, reloads |-> 0,
            todo |-> <<>>, err |-> "none", captured |-> NoSha,
            used |-> NoSha, fresh |-> {}, before |-> <<>>]

IncIdle == [n |-> 0, init |-> 0, val |-> 0, pcs |-> <<>>]

OutsideIdle == [count |-> 0, atEntry |-> 0, yielded |-> "none"]

\* The keys of one root document: its own key "{TypeName}:{pk}", the key its
\* priority-queue field derives from it, and the key a nested model would
\* have if it were a root itself.
RootKey == "Root:1"

PqKey == "Root:1:pq:tasks"

OwnKeyOfNested == "Inner:2"

TtlKeys == {RootKey, PqKey, OwnKeyOfNested}

\* Reply of the TTL command for a key without expiry.
NoExpiry == -1

\* live: the keys that exist; exp: their remaining seconds; sent: the
\* expiries that were set, by what set them and on which key.
TtlIdle == [cfg  |-> [ttl |-> 0, refresh |-> FALSE],
            live |-> {},
            exp  |-> [k \in TtlKeys |-> NoExpiry],
            last |-> [op |-> "none", ok |-> TRUE, before |-> NoExpiry,
                      touched |-> FALSE],
            sent |-> {},
            scope |-> "idle"]

DelIdle == [pc |-> "off", keys |-> <<>>, limit |-> 0, ctx |-> "none",
            inTx |-> FALSE, present |-> {}, initially |-> {},
            batches |-> <<>>, total |-> 0, queued |-> <<>>, sent |-> <<>>,
            committed |-> FALSE, err |-> "none", atReturn |-> {},
            removed |-> 0, byModel |-> <<0, 0>>]

NestIdle == [ctx |-> "none", pcO |-> "off", pcI |-> "off",
             bufO |-> <<>>, bufI |-> <<>>, docs |-> <<0, 0>>,
             orig |-> <<0, 0>>, applied |-> {}, next |-> 1, after |-> "none",
             err |-> "none", seen |-> <<>>]

CallIdle == [fn |-> "none", pc |-> "off", args |-> <<>>, keys |-> <<>>,
             present |-> {}, initially |-> {}, skip |-> FALSE, sent |-> <<>>,
             err |-> "none", result |-> <<>>, by |-> "none"]

NumIdle == [pc |-> "off", op |-> "none", v |-> 0, k |-> 0, local |-> 0,
            stored |-> 0, buf |-> <<>>, err |-> "none"]

NoItems == [form |-> "none", items |-> <<>>]

CollIdle == [on |-> FALSE, doc |-> FALSE, zset |-> {}, map |-> {}, ops |-> 0,
             last |-> [op |-> "none", count |-> 0, before |-> {},
                       ret |-> NoItems, err |-> "none"],
             incr |-> [pc |-> "idle", item |-> 0, seen |-> {}, ret |-> <<>>],
             lmap |-> {},
             dlast |-> [op |-> "none", key |-> 0, before |-> {},
                        lbefore |-> {}, ret |-> <<>>, err |-> "none"]]

ParIdle == [on |-> FALSE, locks |-> {}, tasks |-> <<>>, doc |-> <<>>,
            pipes |-> <<>>, shared |-> <<"none">>]

\* The sub-models at rest.
InitExt ==
    /\ ttl = TtlIdle
    /\ del = DelIdle
    /\ nest = NestIdle
    /\ call = CallIdle
    /\ num = NumIdle
    /\ coll = CollIdle
    /\ par = ParIdle

\* The state after init_rapyer: every script registered, no pipeline in
\* context; InitScope adds the construction and asave of one model.
InitScopeRest ==
    /\ ctx = "none"
    /\ pc = "idle"
    /\ localN = InitialN
    /\ buf = <<>>
    /\ err = "none"
    /\ applied = <<>>
    /\ opsLog = <<>>
    /\ loaded = NoDoc
    /\ atExec = NoDoc
    /\ flushes = [count |-> 0, open |-> FALSE]
    /\ sawNoScript = FALSE
    /\ lastRead = NoRead
    /\ later = "none"
    /\ stale = <<>>
    /\ outside = OutsideIdle

InitScopeIdle ==
    /\ shaCache = [name \in ScriptNames |-> ScriptSha(name)]
    /\ InitScopeRest

InitScope ==
    /\ store = Doc(TRUE, InitialN, InitialTags)
    /\ InitScopeIdle

Init ==
    /\ InitScope
    /\ InitExt
    /\ serverScripts = AllShas
    /\ cfg \in [ignore : BOOLEAN, refresh : BOOLEAN]
    /\ sha = ShaIdle
    /\ inc = IncIdle

Next ==
    \/ Enter
    \/ Load
    \/ \E k \in AddOperands : BodyIAdd(k)
    \/ \E k \in MulOperands : BodyIMul(k)
    \/ \E v \in SetValues : BodySetAttr(v)
    \/ BodyAppend(NewTag)
    \/ \E r \in Ranges : BodyRemoveRange(r[1], r[2])
    \/ BodyRaise
    \/ Cancel
    \/ RefreshAtExit
    \/ Flush
    \/ \E v \in SetValues : LaterSetAttr(v)
    \/ Read
    \/ ScriptFlush
    \/ Delete

Spec == Init /\ [][Next]_vars

\* ------------------------------------- concurrent remote-immediate increments
TxVars == <<store, serverScripts, shaCache, ctx, pc, cfg, localN, buf, err,
            applied, opsLog, loaded, atExec, flushes, sawNoScript, lastRead,
            later, stale, outside, ExtVars>>

\* Mutant: the new value is computed in process from the wrapper's own value
\* and written back.
NumIncrByLocalValue(stored, seen, amount) == seen + amount

\* JSON.NUMINCRBY key path amount: the server adds the amount to the value it
\* holds; the value the wrapper holds in process (seen) plays no part.
NumIncrBy(stored, seen, amount) == stored + amount

\* RedisInt.aincrease(1), first await: the command reaches the server.
IncSend(i) ==
    /\ inc.pcs[i] = "start"
    /\ inc' = [inc EXCEPT !.val = NumIncrBy(inc.val, inc.init, 1),
                          !.pcs[i] = "sent"]
    /\ UNCHANGED <<TxVars, sha>>

\* RedisInt.aincrease, second await: refresh_ttl_if_needed, then the result
\* is returned.
IncReturn(i) ==
    /\ inc.pcs[i] = "sent"
    /\ inc' = [inc EXCEPT !.pcs[i] = "done"]
    /\ UNCHANGED <<TxVars, sha>>

InitInc ==
    /\ InitScope
    /\ InitExt
    /\ serverScripts = AllShas
    /\ cfg = [ignore |-> FALSE, refresh |-> FALSE]
    /\ sha = ShaIdle
    /\ \E n \in 1..MaxTasks, v \in {0, InitialN} :
           inc = [n |-> n, init |-> v, val |-> v,
                  pcs |-> [i \in 1..n |-> "start"]]

NextInc ==
    \/ \E i \in 1..inc.n : IncSend(i)
    \/ \E i \in 1..inc.n : IncReturn(i)

SpecInc == InitInc /\ [][NextInc]_vars

\* ------------------------------------------- an immediate scripted call
ShaScript == "num_mul"

ShaOperands == {2, 3, 5}

\* The two variants of the catalog differ in the text of the list scripts
\* (EXTRACT_ARRAY) and agree on the numeric ones (EXTRACT_VALUE).
VariantChangesText(name) == name = "remove_range"

\* The handle of the "fakeredis" text of a script whose text differs between
\* the variants: what init_rapyer registered for a fakeredis client, while
\* handle_noscript_error always loads the "redis" texts.
StaleSha(name) == <<"sha", name, "fakeredis">>

\* Mutant: only the script whose invocation failed is loaded again.
RegistryOrderFailedOnly == <<ShaScript>>

\* register_scripts loads the catalog in the order of SCRIPT_REGISTRY.
RegistryOrder == <<"remove_range", "num_mul">>

ShaVarsUnchanged ==
    UNCHANGED <<ctx, pc, cfg, localN, buf, err, applied, opsLog, loaded,
                atExec, sawNoScript, lastRead, later, stale, inc,
                   outside, ExtVars>>

\* arun_sha, first attempt: EVALSHA by the cached handle; NoScriptError is
\* caught and leads to the recovery.
ShaFirstAttempt ==
    /\ sha.pc = "start"
    /\ GetScript(ShaScript) # NoSha
    /\ LET r == ServerApply(store,
                    CmdEval(ShaScript, GetScript(ShaScript), sha.operand, 0),
                    serverScripts)
       IN  /\ store' = r.doc
           /\ sha' = IF r.res = "NOSCRIPT"
                     THEN [sha EXCEPT !.pc = "reload", !.attempts = 1,
                                      !.todo = RegistryOrder,
                                      !.captured = GetScript(ShaScript),
                                      !.before = shaCache]
                     ELSE [sha EXCEPT !.pc = "done", !.attempts = 1,
                                      !.captured = GetScript(ShaScript)]
    /\ UNCHANGED <<serverScripts, shaCache, flushes>>
    /\ ShaVarsUnchanged

\* handle_noscript_error -> register_scripts: one SCRIPT LOAD per entry of
\* the catalog, each storing the returned handle in the cache.
ShaLoadNext ==
    /\ sha.pc = "reload"
    /\ LET name == Head(sha.todo)
       IN  /\ serverScripts' = serverScripts \cup {ScriptSha(name)}
           /\ shaCache' = [shaCache EXCEPT ![name] = ScriptSha(name)]
    /\ sha' = IF Len(sha.todo) = 1
              THEN [sha EXCEPT !.pc = "retry", !.todo = <<>>,
                               !.reloads = sha.reloads + 1,
                               !.fresh = @ \cup {Head(sha.todo)}]
              ELSE [sha EXCEPT !.todo = Tail(sha.todo),
                               !.fresh = @ \cup {Head(sha.todo)}]
    /\ UNCHANGED <<store, flushes>>
    /\ ShaVarsUnchanged

\* arun_sha after handle_noscript_error: sha = get_script(script_name) reads
\* the cache again.
RetryHandle(name) == GetScript(name)

\* arun_sha, the retry with the handle read again from the cache; a second
\* NoScriptError becomes PersistentNoScriptError.
ShaRetry ==
    /\ sha.pc = "retry"
    /\ LET h == RetryHandle(ShaScript)
           r == ServerApply(store, CmdEval(ShaScript, h, sha.operand, 0),
                            serverScripts)
       IN  /\ store' = r.doc
           /\ sha' = IF r.res = "NOSCRIPT"
                     THEN [sha EXCEPT !.pc = "raised", !.attempts = 2,
                                      !.used = h,
                                      !.err = "PersistentNoScriptError"]
                     ELSE [sha EXCEPT !.pc = "done", !.attempts = 2,
                                      !.used = h]
    /\ UNCHANGED <<serverScripts, shaCache, flushes>>
    /\ ShaVarsUnchanged

\* The server loses its scripts while the call is under way.
ShaScriptFlush ==
    /\ sha.pc \in {"start", "reload", "retry"}
    /\ flushes.count < MaxScriptFlush + 1
    /\ serverScripts # {}
    /\ serverScripts' = {}
    /\ flushes' = [flushes EXCEPT !.count = flushes.count + 1]
    /\ UNCHANGED <<store, shaCache, sha>>
    /\ ShaVarsUnchanged

\* Another client deletes the document while the call is under way.
ShaDelete ==
    /\ sha.pc \in {"start", "reload", "retry"}
    /\ store.exists
    /\ store' = [store EXCEPT !.exists = FALSE]
    /\ UNCHANGED <<serverScripts, shaCache, flushes, sha>>
    /\ ShaVarsUnchanged

InitSha ==
    /\ store = Doc(TRUE, InitialN, InitialTags)
    /\ \E variant \in {"redis", "fakeredis"} :
         shaCache = [name \in ScriptNames |->
                        IF variant = "redis" \/ ~VariantChangesText(name)
                        THEN ScriptSha(name) ELSE StaleSha(name)]
    /\ InitScopeRest
    /\ InitExt
    /\ serverScripts \in {{shaCache[name] : name \in ScriptNames}, {}}
    /\ cfg = [ignore |-> FALSE, refresh |-> FALSE]
    /\ inc = IncIdle
    /\ \E k \in ShaOperands : sha = [ShaIdle EXCEPT !.pc = "start", !.operand = k]

NextSha ==
    \/ ShaFirstAttempt
    \/ ShaLoadNext
    \/ ShaRetry
    \/ ShaScriptFlush
    \/ ShaDelete

SpecSha == InitSha /\ [][NextSha]_vars

\* ------------------------------------------------- nested transaction scopes
\* The variables of the single-scope model, the immediate calls and the
\* operators applied outside a scope.
CoreVars == <<store, serverScripts, shaCache, ctx, pc, cfg, localN, buf, err,
              applied, opsLog, loaded, atExec, flushes, sawNoScript, lastRead,
              later, stale, sha, inc, outside>>

MaxNestOps == 3

\* Two saved models, each with one counter: 1 is the model of the outer
\* scope, 2 the model of the inner scope.
NestModels == {1, 2}

NestCounters == <<10, 20>>

NestValues == {100, 200}

\* pipeline.json().set(self.key, json_path, value) as recorded on a pipeline.
NestCmd(id, m, v) == [id |-> id, m |-> m, v |-> v]

NestIds(cmds) == {cmds[i].id : i \in 1..Len(cmds)}

\* pipe.execute() of a transactional pipeline of JSON.SET commands.
RECURSIVE NestExec(_, _, _)
NestExec(docs, cmds, i) ==
    IF i > Len(cmds)
    THEN docs
    ELSE NestExec([docs EXCEPT ![cmds[i].m] = cmds[i].v], cmds, i + 1)

\* outer_model.apipeline() up to its yield: a new pipeline becomes the
\* context variable's value.
NestEnterOuter ==
    /\ nest.pcO = "idle"
    /\ nest' = [nest EXCEPT !.pcO = "open", !.ctx = "outer"]
    /\ UNCHANGED <<CoreVars, ttl, del, call, num, coll, par>>

\* inner_model.apipeline() up to its yield, inside the body of the outer.
NestEnterInner ==
    /\ nest.pcO = "open"
    /\ nest.pcI = "idle"
    /\ nest' = [nest EXCEPT !.pcI = "open", !.ctx = "inner"]
    /\ UNCHANGED <<CoreVars, ttl, del, call, num, coll, par>>

\* model.counter = v in the body: __setattr__ takes whatever the context
\* variable holds as the pipeline. After the inner scope has exited it holds
\* the Token of the inner scope's set(), and Token has no json().
NestSetAttr(m, v) ==
    /\ nest.pcO = "open"
    /\ nest.next <= MaxNestOps
    /\ LET c      == NestCmd(nest.next, m, v)
           isLate == nest.pcI = "closed" /\ nest.after = "none"
       IN  nest' =
             IF nest.ctx = "outer"
             THEN [nest EXCEPT !.bufO = Append(@, c), !.next = @ + 1,
                               !.after = IF isLate THEN "buffered" ELSE @]
             ELSE IF nest.ctx = "inner"
             THEN [nest EXCEPT !.bufI = Append(@, c), !.next = @ + 1]
             ELSE [nest EXCEPT !.pcO = "raised", !.err = "AttributeError",
                               !.next = @ + 1,
                               !.after = IF isLate THEN "AttributeError" ELSE @]
    /\ UNCHANGED <<CoreVars, ttl, del, call, num, coll, par>>

\* Exit of the inner scope: its pipeline is executed, then
\* _context_var.set(pipe_prev) stores the Token.
NestExitInner ==
    /\ nest.pcI = "open"
    /\ nest' = [nest EXCEPT !.docs = NestExec(nest.docs, nest.bufI, 1),
                            !.applied = @ \cup NestIds(nest.bufI),
                            !.pcI = "closed",
                            !.ctx = "token"]
    /\ UNCHANGED <<CoreVars, ttl, del, call, num, coll, par>>

\* Exit of the outer scope after its body ran to the end.
NestExitOuter ==
    /\ nest.pcO = "open"
    /\ nest.pcI \in {"idle", "closed"}
    /\ nest' = [nest EXCEPT !.docs = NestExec(nest.docs, nest.bufO, 1),
                            !.applied = @ \cup NestIds(nest.bufO),
                            !.pcO = "closed",
                            !.ctx = "token"]
    /\ UNCHANGED <<CoreVars, ttl, del, call, num, coll, par>>

InitNest ==
    /\ InitScope
    /\ serverScripts = AllShas
    /\ cfg = [ignore |-> FALSE, refresh |-> FALSE]
    /\ sha = ShaIdle
    /\ inc = IncIdle
    /\ ttl = TtlIdle
    /\ del = DelIdle
    /\ call = CallIdle
    /\ num = NumIdle
    /\ coll = CollIdle
    /\ par = ParIdle
    /\ nest = [NestIdle EXCEPT !.pcO = "idle", !.pcI = "idle",
                               !.docs = NestCounters, !.orig = NestCounters]

NextNest ==
    \/ NestEnterOuter
    \/ NestEnterInner
    \/ \E m \in NestModels, v \in NestValues : NestSetAttr(m, v)
    \/ NestExitInner
    \/ NestExitOuter

SpecNest == InitNest /\ [][NextNest]_vars

\* ------------------------------------- operators applied outside a scope
MaxLocalOps == 2

\* Mutant: a wrapper that finds no pipeline sends its command at once.
WithoutPipelineSends(cmds) ==
    /\ store' = ExecTx(store, cmds, serverScripts).doc
    /\ buf' = buf

\* "if self.pipeline:" / "if pipeline is not None:" with nothing in the
\* context variable: the command is not built and nothing is sent.
WithoutPipeline(cmds) ==
    /\ store' = store
    /\ buf' = buf

NoScopeActive ==
    /\ pc = "idle"
    /\ ctx = "none"
    /\ outside.count < MaxLocalOps

\* model.n += k with no scope active: only the in-process value changes.
LocalIAdd(k) ==
    /\ NoScopeActive
    /\ WithoutPipeline(<<CmdIncr(k), CmdSet(localN + k)>>)
    /\ localN' = localN + k
    /\ outside' = [outside EXCEPT !.count = @ + 1]
    /\ UNCHANGED <<serverScripts, shaCache, ctx, pc, cfg, err, applied, opsLog,
                   loaded, atExec, flushes, sawNoScript, lastRead, later,
                   stale, sha, inc, ExtVars>>

\* model.n *= k with no scope active: run_sha is not reached.
LocalIMul(k) ==
    /\ NoScopeActive
    /\ WithoutPipeline(<<CmdEval("num_mul", GetScript("num_mul"), k, 0),
                         CmdSet(localN * k)>>)
    /\ localN' = localN * k
    /\ outside' = [outside EXCEPT !.count = @ + 1]
    /\ UNCHANGED <<serverScripts, shaCache, ctx, pc, cfg, err, applied, opsLog,
                   loaded, atExec, flushes, sawNoScript, lastRead, later,
                   stale, sha, inc, ExtVars>>

\* model.n = v with no scope active.
LocalSetAttr(v) ==
    /\ NoScopeActive
    /\ WithoutPipeline(<<CmdSet(v)>>)
    /\ localN' = v
    /\ outside' = [outside EXCEPT !.count = @ + 1]
    /\ UNCHANGED <<serverScripts, shaCache, ctx, pc, cfg, err, applied, opsLog,
                   loaded, atExec, flushes, sawNoScript, lastRead, later,
                   stale, sha, inc, ExtVars>>

InitLocal ==
    /\ InitScope
    /\ InitExt
    /\ serverScripts = AllShas
    /\ cfg = [ignore |-> FALSE, refresh |-> FALSE]
    /\ sha = ShaIdle
    /\ inc = IncIdle

\* Unsaved local changes, then one scope on the same instance.
NextLocal ==
    \/ \E k \in AddOperands : LocalIAdd(k)
    \/ \E k \in MulOperands : LocalIMul(k)
    \/ \E v \in SetValues : LocalSetAttr(v)
    \/ Enter
    \/ Load
    \/ \E k \in AddOperands : BodyIAdd(k)
    \/ \E k \in MulOperands : BodyIMul(k)
    \/ \E v \in SetValues : BodySetAttr(v)
    \/ BodyAppend(NewTag)
    \/ Flush

SpecLocal == InitLocal /\ [][NextLocal]_vars

\* ------------------------------------------- remove_range over all indices
MaxLen == 3

\* A list of n distinct elements.
ListOfLen(n) == [i \in 1..n |-> i]

\* start and end from below -n to above n.
RangeIndices == (0 - (MaxLen + 2))..(MaxLen + 2)

InitRange ==
    /\ \E n \in 0..MaxLen : store = Doc(TRUE, InitialN, ListOfLen(n))
    /\ InitScopeIdle
    /\ InitExt
    /\ serverScripts = AllShas
    /\ cfg = [ignore |-> FALSE, refresh |-> FALSE]
    /\ sha = ShaIdle
    /\ inc = IncIdle

\* The only operation of the body: tags.remove_range(s, e).
RemoveOneRange(s, e) ==
    /\ opsLog = <<>>
    /\ BodyRemoveRange(s, e)

\* One scope whose body removes one range from the list.
NextRange ==
    \/ Enter
    \/ Load
    \/ \E s \in RangeIndices, e \in RangeIndices : RemoveOneRange(s, e)
    \/ Flush

SpecRange == InitRange /\ [][NextRange]_vars

\* ------------------------------------------------------------- TTL policy
\* Meta.ttl of the document type, in seconds; 0 stands for None.
TtlSeconds == 3

\* Values passed to aset_ttl: shorter and longer than Meta.ttl.
AsetTtlValues == {1, TtlSeconds + 1}

\* The model instances: a root document and a model nested in one of its
\* fields (_base_model_link set, field_name not empty).
TtlObjects == {"root", "nested"}

\* Mutant: no instance counts as nested.
IsInnerModelNever(obj) == FALSE

\* is_inner_model: bool(self.field_name).
IsInnerModel(obj) == obj = "nested"

\* _base_model_link: the instance a nested model is a field of.
Parent(obj) == IF obj = "nested" THEN "root" ELSE "none"

\* "{key_initials}:{pk}" of the instance itself.
OwnKey(obj) == IF obj = "root" THEN RootKey ELSE OwnKeyOfNested

\* The key property: a linked instance answers with the key of its parent.
Key(obj) == IF Parent(obj) # "none" THEN OwnKey(Parent(obj)) ELSE OwnKey(obj)

\* Mutant: refresh_ttl alone decides, whether or not a ttl is configured.
ShouldRefreshWithoutTtl(c) == c.refresh

\* should_refresh: Meta.refresh_ttl and Meta.ttl is not None.
ShouldRefresh(c) == c.refresh /\ c.ttl # 0

\* EXPIRE key seconds [NX] on the server: the new ttl state, or the old one
\* when the key is missing or NX finds an expiry.
Expire(t, class, key, seconds, nx) ==
    IF key \notin t.live \/ (nx /\ t.exp[key] # NoExpiry)
    THEN t
    ELSE [t EXCEPT !.exp[key] = seconds,
                   !.sent = @ \cup {[class |-> class, key |-> key]}]

\* JSON.SET key $ value: creates the key without expiry, keeps the expiry of
\* a key that exists.
JsonSetRoot(t, key) == [t EXCEPT !.live = @ \cup {key}]

TtlLast(op, ok) ==
    [op |-> op, ok |-> ok, before |-> ttl.exp[RootKey],
     touched |-> RootKey \in ttl.live]

TtlFrame == UNCHANGED <<CoreVars, del, nest, call, num, coll, par>>

\* AtomicRedisModel.asave of the root document.
TtlAsave ==
    /\ LET t1 == JsonSetRoot(ttl, RootKey)
           t2 == IF ttl.cfg.ttl # 0
                 THEN Expire(t1, "policy", RootKey, ttl.cfg.ttl, ~ttl.cfg.refresh)
                 ELSE t1
       IN  ttl' = [t2 EXCEPT !.last = TtlLast("asave", TRUE)]
    /\ TtlFrame

\* AtomicRedisModel.ainsert / rapyer.ainsert of the root document.
TtlAinsert ==
    /\ LET t1 == JsonSetRoot(ttl, RootKey)
           t2 == IF ttl.cfg.ttl # 0
                 THEN Expire(t1, "policy", RootKey, ttl.cfg.ttl, FALSE)
                 ELSE t1
       IN  ttl' = [t2 EXCEPT !.last = TtlLast("ainsert", TRUE)]
    /\ TtlFrame

\* refresh_ttl_if_needed, and the same lines at the end of aget and afind.
RefreshTtlIfNeeded(t) ==
    IF ShouldRefresh(t.cfg)
    THEN Expire(t, "policy", RootKey, t.cfg.ttl, FALSE)
    ELSE t

\* AtomicRedisModel.aget: KeyNotFound for a missing key, else the refresh.
TtlAget ==
    /\ ttl.scope = "idle"
    /\ ttl' = IF RootKey \notin ttl.live
              THEN [ttl EXCEPT !.last = TtlLast("aget", FALSE)]
              ELSE [RefreshTtlIfNeeded(ttl) EXCEPT !.last = TtlLast("aget", TRUE)]
    /\ TtlFrame

\* AtomicRedisModel.afind(key): JSON.MGET, KeyNotFound for a missing key,
\* else one EXPIRE per instance found when the type refreshes.
TtlAfind ==
    /\ ttl.scope = "idle"
    /\ ttl' = IF RootKey \notin ttl.live
              THEN [ttl EXCEPT !.last = TtlLast("afind", FALSE)]
              ELSE [RefreshTtlIfNeeded(ttl) EXCEPT !.last = TtlLast("afind", TRUE)]
    /\ TtlFrame

\* AtomicRedisModel.aupdate: JSON.SET of the fields in a pipeline of its own
\* (an error reply for a missing document), then refresh_ttl_if_needed.
TtlAupdate ==
    /\ ttl.scope = "idle"
    /\ ttl' = IF RootKey \notin ttl.live
              THEN [ttl EXCEPT !.last = TtlLast("aupdate", FALSE)]
              ELSE [RefreshTtlIfNeeded(ttl) EXCEPT
                        !.last = TtlLast("aupdate", TRUE)]
    /\ TtlFrame

\* RedisInt.aincrease: JSON.NUMINCRBY (an error reply for a missing
\* document), then refresh_ttl_if_needed.
TtlAincrease ==
    /\ ttl.scope = "idle"
    /\ ttl' = IF RootKey \notin ttl.live
              THEN [ttl EXCEPT !.last = TtlLast("aincrease", FALSE)]
              ELSE [RefreshTtlIfNeeded(ttl) EXCEPT
                        !.last = TtlLast("aincrease", TRUE)]
    /\ TtlFrame

\* model.apipeline() up to the yield: the aget of the entry.
TtlScopeEnter ==
    /\ ttl.scope = "idle"
    /\ IF RootKey \notin ttl.live
       THEN ttl' = [ttl EXCEPT !.last = TtlLast("enter", FALSE)]
       ELSE ttl' = [RefreshTtlIfNeeded(ttl) EXCEPT
                        !.last = TtlLast("enter", TRUE),
                        !.scope = "open"]
    /\ TtlFrame

\* model.apipeline() after a body "model.age += 1": for a refreshing type
\* "pipe.expire" raises NameError before the flush; otherwise the flush runs
\* and no EXPIRE is part of it.
TtlScopeExit ==
    /\ ttl.scope = "open"
    /\ ttl' = [ttl EXCEPT !.scope = "idle",
                          !.last = TtlLast("flush",
                                     ~ShouldRefresh(ttl.cfg)
                                         /\ RootKey \in ttl.live)]
    /\ TtlFrame

\* asave of the nested model: JSON.SET at its path in the document of its
\* parent, then the same EXPIRE as asave on self.key.
TtlNestedAsave ==
    /\ IF Key("nested") \notin ttl.live
       THEN ttl' = [ttl EXCEPT !.last = TtlLast("nested.asave", FALSE)]
       ELSE LET t1 == IF ttl.cfg.ttl # 0
                      THEN Expire(ttl, "policy", Key("nested"), ttl.cfg.ttl,
                                  ~ttl.cfg.refresh)
                      ELSE ttl
            IN  ttl' = [t1 EXCEPT !.last = TtlLast("nested.asave", TRUE)]
    /\ TtlFrame

\* aset_ttl(seconds) on the root or on the nested model, no scope active.
TtlAsetTtl(obj, seconds) ==
    /\ ttl.scope = "idle"
    /\ IF IsInnerModel(obj)
       THEN ttl' = [ttl EXCEPT !.last = TtlLast("aset_ttl." \o obj, FALSE)]
       ELSE LET t1 == Expire(ttl, "aset_ttl", Key(obj), seconds, FALSE)
            IN  ttl' = [t1 EXCEPT !.last = TtlLast("aset_ttl." \o obj, TRUE)]
    /\ TtlFrame

\* RedisPriorityQueue.apush: ZADD on the derived key, then _refresh_ttl.
TtlPqPush ==
    /\ LET t1 == [ttl EXCEPT !.live = @ \cup {PqKey}]
           t2 == IF ttl.cfg.ttl # 0 /\ ttl.cfg.refresh
                 THEN Expire(t1, "policy", PqKey, ttl.cfg.ttl, FALSE)
                 ELSE t1
       IN  ttl' = [t2 EXCEPT !.last = TtlLast("apush", TRUE)]
    /\ TtlFrame

\* One second passes on the server: expiries count down, and a key whose
\* expiry runs out is removed.
TtlTick ==
    /\ \E k \in ttl.live : ttl.exp[k] >= 1
    /\ ttl' = [ttl EXCEPT
                 !.live = {k \in @ : ttl.exp[k] # 1},
                 !.exp = [k \in TtlKeys |->
                            IF ttl.exp[k] > 1 THEN ttl.exp[k] - 1 ELSE NoExpiry],
                 !.last = TtlLast("tick", TRUE)]
    /\ TtlFrame

InitTtl ==
    /\ InitScope
    /\ serverScripts = AllShas
    /\ cfg = [ignore |-> FALSE, refresh |-> FALSE]
    /\ sha = ShaIdle
    /\ inc = IncIdle
    /\ del = DelIdle
    /\ nest = NestIdle
    /\ call = CallIdle
    /\ num = NumIdle
    /\ coll = CollIdle
    /\ par = ParIdle
    /\ \E c \in [ttl : {0, TtlSeconds}, refresh : BOOLEAN] :
           ttl = [TtlIdle EXCEPT !.cfg = c]

NextTtl ==
    \/ TtlAsave
    \/ TtlAinsert
    \/ TtlAget
    \/ TtlAfind
    \/ TtlAupdate
    \/ TtlAincrease
    \/ TtlScopeEnter
    \/ TtlScopeExit
    \/ TtlNestedAsave
    \/ \E obj \in TtlObjects, s \in AsetTtlValues : TtlAsetTtl(obj, s)
    \/ TtlPqPush
    \/ TtlTick

SpecTtl == InitTtl /\ [][NextTtl]_vars

\* -------------------------------------------------------- batched deletion
MaxKeys == 4

MaxBatch == 3

\* The smaller of two numbers.
Min(a, b) == IF a < b THEN a ELSE b

\* Mutant: only full groups are produced, a shorter last group is dropped.
BatchedFullGroupsOnly(keys, n) ==
    [i \in 1..(Len(keys) \div n) |-> SubSeq(keys, (i - 1) * n + 1, i * n)]

\* Mutant: each slice runs one element into the next one.
BatchedOverlapping(keys, n) ==
    [i \in 1..((Len(keys) + n - 1) \div n) |->
        SubSeq(keys, (i - 1) * n + 1, Min(i * n + 1, Len(keys)))]

\* batched(iterable, n): the slices iterable[i : i + n] for i = 0, n, 2n, ...
Batched(keys, n) ==
    [i \in 1..((Len(keys) + n - 1) \div n) |->
        SubSeq(keys, (i - 1) * n + 1, Min(i * n, Len(keys)))]

\* The batch iterator the caller hands to delete_in_batches: groups of at
\* most max_delete_per_transaction keys, or one group when that is None (0).
Batches(keys, limit) ==
    IF limit = 0
    THEN (IF keys = <<>> THEN <<>> ELSE <<keys>>)
    ELSE Batched(keys, limit)

SeqToSet(seq) == {seq[i] : i \in 1..Len(seq)}

\* Mutant: the reply of DEL is taken to be the number of keys named.
ExecuteDeleteBatchCountsNamed(present, batch) ==
    [count   |-> Len(batch),
     present |-> present \ SeqToSet(batch)]

\* execute_delete_batch: MULTI, DEL key..., EXEC; the reply of DEL is the
\* number of keys that existed and were removed.
ExecuteDeleteBatch(present, batch) ==
    [count   |-> Cardinality(SeqToSet(batch) \cap present),
     present |-> present \ SeqToSet(batch)]

DelFrame == UNCHANGED <<CoreVars, ttl, nest, call, num, coll, par>>

\* delete_in_batches, nothing in the context variable: one iteration of the
\* second loop, which sends the batch as MULTI, DEL key..., EXEC.
DelBatch ==
    /\ del.pc = "run"
    /\ del.ctx = "none"
    /\ del.batches # <<>>
    /\ LET r == ExecuteDeleteBatch(del.present, Head(del.batches))
       IN  del' = [del EXCEPT !.present = r.present,
                              !.total = @ + r.count,
                              !.sent = Append(@, Head(del.batches)),
                              !.batches = Tail(@)]
    /\ DelFrame

\* delete_in_batches with a pipeline in the context variable: one iteration
\* of the first loop; the DEL is recorded on the pipeline and the batch is
\* counted by its length.
DelQueue ==
    /\ del.pc = "run"
    /\ del.ctx = "pipe"
    /\ del.batches # <<>>
    /\ del' = [del EXCEPT !.queued = Append(@, Head(del.batches)),
                          !.total = @ + Len(Head(del.batches)),
                          !.batches = Tail(@)]
    /\ DelFrame

\* delete_in_batches when the context variable holds the Token that the exit
\* of an earlier scope stored in it: client.delete is not an attribute.
DelRaise ==
    /\ del.pc = "run"
    /\ del.ctx = "token"
    /\ del.batches # <<>>
    /\ del' = [del EXCEPT !.pc = "raised", !.err = "AttributeError"]
    /\ DelFrame

\* The document type of a key: "StrModel:..." for odd keys, "IntModel:..."
\* for even ones.
DocTypes == {1, 2}

ClassOf(key) == IF key % 2 = 1 THEN 1 ELSE 2

\* RapyerDeleteResult.by_model as rapyer.adelete_many fills it: per document
\* type, the number of keys of that type the call was given.
ByModel(keys) ==
    [c \in DocTypes |-> Cardinality({k \in SeqToSet(keys) : ClassOf(k) = c})]

\* delete_in_batches returns (count, False) from the first loop and
\* (total, True) from the second; rapyer.adelete_many adds by_model.
DelReturn ==
    /\ del.pc = "run"
    /\ del.batches = <<>>
    /\ del' = [del EXCEPT !.pc = "done",
                          !.committed = (del.ctx = "none"),
                          !.atReturn = del.present,
                          !.byModel = ByModel(del.keys)]
    /\ DelFrame

RECURSIVE Flatten(_)
Flatten(seqs) ==
    IF seqs = <<>> THEN <<>> ELSE Head(seqs) \o Flatten(Tail(seqs))

\* The exit of the enclosing scope: pipe.execute() runs the recorded DEL
\* commands in one MULTI/EXEC.
DelScopeExit ==
    /\ del.pc = "done"
    /\ del.inTx
    /\ LET r == ExecuteDeleteBatch(del.present, Flatten(del.queued))
       IN  del' = [del EXCEPT !.pc = "flushed",
                              !.inTx = FALSE,
                              !.ctx = "token",
                              !.present = r.present,
                              !.removed = r.count]
    /\ DelFrame

\* What the context variable can hold when the deletion is called:
\*   "none"   no scope was entered in this task
\*   "pipe"   the pipeline of a scope: an open one, or (not open) the dead
\*            pipeline of a scope that was left by an exception
\*   "token"  the Token stored by the exit of a scope that flushed
DelContexts ==
    {[ctx |-> "none", inTx |-> FALSE], [ctx |-> "pipe", inTx |-> TRUE],
     [ctx |-> "pipe", inTx |-> FALSE], [ctx |-> "token", inTx |-> FALSE]}

\* A call on K keys, of which any may exist, with a limit of 1..MaxBatch or
\* none, in each of the contexts.
InitDel ==
    /\ InitScope
    /\ serverScripts = AllShas
    /\ cfg = [ignore |-> FALSE, refresh |-> FALSE]
    /\ sha = ShaIdle
    /\ inc = IncIdle
    /\ ttl = TtlIdle
    /\ nest = NestIdle
    /\ call = CallIdle
    /\ num = NumIdle
    /\ coll = CollIdle
    /\ par = ParIdle
    /\ \E k \in 0..MaxKeys, limit \in 0..MaxBatch, c \in DelContexts :
         \E existing \in SUBSET (1..k) :
           del = [DelIdle EXCEPT !.pc = "run",
                                 !.keys = ListOfLen(k),
                                 !.limit = limit,
                                 !.ctx = c.ctx,
                                 !.inTx = c.inTx,
                                 !.present = existing,
                                 !.initially = existing,
                                 !.batches = Batches(ListOfLen(k), limit)]

NextDel ==
    \/ DelBatch
    \/ DelQueue
    \/ DelRaise
    \/ DelReturn
    \/ DelScopeExit

SpecDel == InitDel /\ [][NextDel]_vars

\* ------------------------------------- integer operators inside a scope
MaxNum == 3

NumValues == (0 - MaxNum)..MaxNum

NumOps == {"imul", "ifloordiv", "imod", "ipow"}

RECURSIVE Pow(_, _)
Pow(v, k) == IF k = 0 THEN 1 ELSE v * Pow(v, k - 1)

\* floor(a / b) for any b # 0.
FloorDiv(a, b) == IF b > 0 THEN a \div b ELSE (0 - a) \div (0 - b)

\* v ** k for k < 0 is a float of magnitude 1 / |v| ** |k|; sign tells
\* whether it is below zero, unit whether its magnitude is exactly 1.
NegPow(v, k) ==
    [negative |-> v < 0 /\ (0 - k) % 2 = 1,
     unit     |-> v = 1 \/ v = 0 - 1]

\* Python raises ZeroDivisionError while computing new_value.
PyRaises(op, v, k) ==
    \/ op \in {"ifloordiv", "imod"} /\ k = 0
    \/ op = "ipow" /\ v = 0 /\ k < 0

\* new_value of the operator, then self.__class__(new_value): int() of a
\* float truncates towards zero.
PyNum(op, v, k) ==
    IF op = "imul" THEN v * k
    ELSE IF op = "ifloordiv" THEN FloorDiv(v, k)
    ELSE IF op = "imod" THEN v - k * FloorDiv(v, k)
    ELSE IF k >= 0 THEN Pow(v, k)
    ELSE IF NegPow(v, k).unit
         THEN (IF NegPow(v, k).negative THEN 0 - 1 ELSE 1)
         ELSE 0

\* The result the Lua scripts write: value * operand,
\* math.floor(value / operand), value % operand, math.floor(value ^ operand).
LuaNum(op, v, k) ==
    IF op = "imul" THEN v * k
    ELSE IF op = "ifloordiv" THEN FloorDiv(v, k)
    ELSE IF op = "imod" THEN v - k * FloorDiv(v, k)
    ELSE IF k >= 0 THEN Pow(v, k)
    ELSE IF NegPow(v, k).unit
         THEN (IF NegPow(v, k).negative THEN 0 - 1 ELSE 1)
         ELSE (IF NegPow(v, k).negative THEN 0 - 1 ELSE 0)

\* Mutant: the operator records its script only; the assignment of the
\* result to the field records nothing.
OperatorCommandsScriptOnly(op, k, result) == <<[cmd |-> op, arg |-> k]>>

\* model.field op= k in a scope: the operator records one EVALSHA of its
\* script (run_sha), and the assignment of its result to the field records
\* JSON.SET of that result (__setattr__).
OperatorCommands(op, k, result) ==
    <<[cmd |-> op, arg |-> k], [cmd |-> "SET", arg |-> result]>>

\* The server runs the recorded commands in order on the stored value.
RECURSIVE NumExec(_, _)
NumExec(value, cmds) ==
    IF cmds = <<>> THEN value
    ELSE LET c == Head(cmds)
         IN  NumExec(IF c.cmd = "SET" THEN c.arg ELSE LuaNum(c.cmd, value, c.arg),
                     Tail(cmds))

NumFrame == UNCHANGED <<CoreVars, ttl, del, nest, call, coll, par>>

\* The body of the scope applies one operator to the field.
NumApply(op, k) ==
    /\ num.pc = "open"
    /\ IF PyRaises(op, num.v, k)
       THEN num' = [num EXCEPT !.pc = "raised", !.op = op, !.k = k,
                               !.err = "ZeroDivisionError"]
       ELSE num' = [num EXCEPT
                       !.pc = "applied", !.op = op, !.k = k,
                       !.local = PyNum(op, num.v, k),
                       !.buf = OperatorCommands(op, k, PyNum(op, num.v, k))]
    /\ NumFrame

\* The scope exits and its pipeline is executed; no other client writes.
NumFlush ==
    /\ num.pc = "applied"
    /\ num' = [num EXCEPT !.pc = "closed",
                          !.stored = NumExec(num.stored, num.buf)]
    /\ NumFrame

\* A saved model whose field holds v, inside a scope that has loaded it.
InitNum ==
    /\ InitScope
    /\ serverScripts = AllShas
    /\ cfg = [ignore |-> FALSE, refresh |-> FALSE]
    /\ sha = ShaIdle
    /\ inc = IncIdle
    /\ ttl = TtlIdle
    /\ del = DelIdle
    /\ nest = NestIdle
    /\ call = CallIdle
    /\ coll = CollIdle
    /\ par = ParIdle
    /\ \E v \in NumValues :
         num = [NumIdle EXCEPT !.pc = "open", !.v = v, !.local = v,
                               !.stored = v]

NextNum ==
    \/ \E op \in NumOps, k \in NumValues : NumApply(op, k)
    \/ NumFlush

SpecNum == InitNum /\ [][NextNum]_vars

\* ------------------------------- AtomicRedisModel.adelete_many, arguments
MaxArgs == 3

\* What a positional argument can be: a key string, a model instance, or a
\* selector expression such as Model.age > 30.
ArgKinds == {"key", "instance", "expression"}

ArgLists == UNION {[1..n -> ArgKinds] : n \in 0..MaxArgs}

\* The call mixes selector arguments with key or instance arguments.
IsMixed(args) ==
    /\ \E i \in 1..Len(args) : args[i] = "expression"
    /\ \E i \in 1..Len(args) : args[i] # "expression"

\* The key of no document.
NoKey == 0

CallFrame == UNCHANGED <<CoreVars, ttl, del, nest, num, coll, par>>

\* adelete_many, the list comprehension: a string is taken as the key,
\* anything else is asked for its attribute key. Whether an expression has
\* such an attribute is not decided by the sources at hand: either the
\* lookup raises AttributeError or it yields something that names no
\* document.
AdmKeys ==
    /\ call.fn = "adelete_many"
    /\ call.pc = "start"
    /\ \E hasKey \in BOOLEAN :
         IF ~hasKey /\ \E i \in 1..Len(call.args) : call.args[i] = "expression"
         THEN call' = [call EXCEPT !.pc = "raised", !.err = "AttributeError"]
         ELSE call' = [call EXCEPT
                          !.pc = "send",
                          !.keys = [i \in 1..Len(call.args) |->
                                      IF call.args[i] = "expression"
                                      THEN NoKey ELSE i]]
    /\ CallFrame

\* adelete_many, await cls.Meta.redis.delete(*keys): one DEL naming the keys
\* goes to the server, whatever the context variable holds; a DEL that
\* names no key is answered with an error, which redis-py raises as
\* ResponseError.
AdmSend ==
    /\ call.fn = "adelete_many"
    /\ call.pc = "send"
    /\ IF call.keys = <<>>
       THEN call' = [call EXCEPT !.pc = "raised", !.err = "ResponseError",
                                 !.sent = Append(@, call.keys)]
       ELSE call' = [call EXCEPT !.pc = "done",
                                 !.sent = Append(@, call.keys),
                                 !.present = @ \ SeqToSet(call.keys)]
    /\ CallFrame

\* A call with up to MaxArgs arguments; argument i, when it is a key or an
\* instance, names document i, which may or may not exist.
InitAdm ==
    /\ InitScope
    /\ serverScripts = AllShas
    /\ cfg = [ignore |-> FALSE, refresh |-> FALSE]
    /\ sha = ShaIdle
    /\ inc = IncIdle
    /\ ttl = TtlIdle
    /\ del = DelIdle
    /\ nest = NestIdle
    /\ num = NumIdle
    /\ coll = CollIdle
    /\ par = ParIdle
    /\ \E args \in ArgLists :
         \E existing \in SUBSET (1..Len(args)) :
           call = [CallIdle EXCEPT !.fn = "adelete_many",
                                   !.pc = "start",
                                   !.args = args,
                                   !.present = existing,
                                   !.initially = existing]

NextAdm ==
    \/ AdmKeys
    \/ AdmSend

SpecAdm == InitAdm /\ [][NextAdm]_vars

\* ------------------------------------------------ rapyer.afind over keys
MaxFind == 3

\* What a requested key can name:
\*   "present"  a stored document of a registered type
\*   "invalid"  a stored document that its type fails to validate
\*   "absent"   no document, the type prefix is registered
\*   "unknown"  no document, the type prefix is no registered type
KeyKinds == {"present", "invalid", "absent", "unknown"}

FindLists == UNION {[1..n -> KeyKinds] : n \in 0..MaxFind}

\* Mutant: a missing document is skipped whatever skip_missing says.
MissingNeverAborts(skip) == FALSE

\* if data is None: if not skip_missing: raise KeyNotFound
MissingAborts(skip) == ~skip

\* The positions of the keys for which a model was built, in request order.
Built(args) ==
    LET Valid(i) == args[i] = "present"
    IN  SelectSeq(ListOfLen(Len(args)), Valid)

\* afind, up to the MGET: no key returns the empty list; a key whose prefix
\* is no registered type raises before any command is sent.
AfindResolve ==
    /\ call.fn = "afind"
    /\ call.pc = "start"
    /\ IF call.args = <<>>
       THEN call' = [call EXCEPT !.pc = "done"]
       ELSE IF \E i \in 1..Len(call.args) : call.args[i] = "unknown"
       THEN call' = [call EXCEPT !.pc = "raised",
                                 !.err = "RapyerModelDoesntExistError"]
       ELSE call' = [call EXCEPT !.pc = "mget"]
    /\ CallFrame

\* afind: one JSON.MGET of all the keys.
AfindMget ==
    /\ call.fn = "afind"
    /\ call.pc = "mget"
    /\ call' = [call EXCEPT !.pc = "build", !.sent = Append(@, "MGET")]
    /\ CallFrame

\* afind, the loop over the replies in request order: a missing document
\* raises KeyNotFound or is skipped; a document that create_redis_model
\* cannot validate is skipped.
AfindBuild ==
    /\ call.fn = "afind"
    /\ call.pc = "build"
    /\ IF /\ MissingAborts(call.skip)
          /\ \E i \in 1..Len(call.args) : call.args[i] = "absent"
       THEN call' = [call EXCEPT !.pc = "raised", !.err = "KeyNotFound"]
       ELSE call' = [call EXCEPT !.pc = "expire", !.result = Built(call.args)]
    /\ CallFrame

\* afind, the pipeline that refreshes the TTLs, then the return.
AfindReturn ==
    /\ call.fn = "afind"
    /\ call.pc = "expire"
    /\ call' = [call EXCEPT !.pc = "done", !.sent = Append(@, "EXPIRE")]
    /\ CallFrame

InitFind ==
    /\ InitScope
    /\ serverScripts = AllShas
    /\ cfg = [ignore |-> FALSE, refresh |-> FALSE]
    /\ sha = ShaIdle
    /\ inc = IncIdle
    /\ ttl = TtlIdle
    /\ del = DelIdle
    /\ nest = NestIdle
    /\ num = NumIdle
    /\ coll = CollIdle
    /\ par = ParIdle
    /\ \E args \in FindLists, skip \in BOOLEAN :
         call = [CallIdle EXCEPT !.fn = "afind", !.pc = "start",
                                 !.args = args, !.skip = skip]

NextFind ==
    \/ AfindResolve
    \/ AfindMget
    \/ AfindBuild
    \/ AfindReturn

SpecFind == InitFind /\ [][NextFind]_vars

\* ------------------------------------------- AtomicRedisModel.afind(*args)
\* How the class-level afind gets its keys: from the caller, from an index
\* search, or from KEYS over the prefix of the class.
FindModes == {"keys", "expression", "all"}

\* What a targeted key of the class can name when the MGET runs.
ClsKeyKinds == {"present", "invalid", "absent"}

ClsFindLists == UNION {[1..n -> ClsKeyKinds] : n \in 0..MaxFind}

\* raise_on_missing = bool(provided_keys)
RaiseOnMissing(by) == by = "keys"

\* Model.afind up to the MGET: the targeted keys, and the empty list when
\* there is none.
ClsAfindTarget ==
    /\ call.fn = "Model.afind"
    /\ call.pc = "start"
    /\ LET lookup == CASE call.by = "keys" -> <<>>
                       [] call.by = "expression" -> <<"FT.SEARCH">>
                       [] OTHER -> <<"KEYS">>
       IN  call' = [call EXCEPT
                      !.pc = IF call.args = <<>> THEN "done" ELSE "mget",
                      !.sent = lookup]
    /\ CallFrame

\* Model.afind from the MGET to the return: a missing document raises when
\* the caller named the keys and is skipped otherwise; a document that does
\* not validate is skipped.
ClsAfindFetch ==
    /\ call.fn = "Model.afind"
    /\ call.pc = "mget"
    /\ IF /\ RaiseOnMissing(call.by)
          /\ \E i \in 1..Len(call.args) : call.args[i] = "absent"
       THEN call' = [call EXCEPT !.pc = "raised", !.err = "KeyNotFound",
                                 !.sent = Append(@, "MGET")]
       ELSE call' = [call EXCEPT !.pc = "done",
                                 !.result = Built(call.args),
                                 !.sent = Append(@, "MGET")]
    /\ CallFrame

InitClsFind ==
    /\ InitScope
    /\ serverScripts = AllShas
    /\ cfg = [ignore |-> FALSE, refresh |-> FALSE]
    /\ sha = ShaIdle
    /\ inc = IncIdle
    /\ ttl = TtlIdle
    /\ del = DelIdle
    /\ nest = NestIdle
    /\ num = NumIdle
    /\ coll = CollIdle
    /\ par = ParIdle
    /\ \E args \in ClsFindLists, by \in FindModes :
         call = [CallIdle EXCEPT !.fn = "Model.afind", !.pc = "start",
                                 !.args = args, !.by = by]

NextClsFind ==
    \/ ClsAfindTarget
    \/ ClsAfindFetch

SpecClsFind == InitClsFind /\ [][NextClsFind]_vars

\* ------------------------------------- RedisPriorityQueue, remote-immediate
\* The sorted set at {ParentKey}:pq:{field}: a set of <<member, score>> with
\* one score per member. The calls run with the context variable empty,
\* so that self.client is the connection.
MaxMembers == 2
MaxScore == 2
MaxCount == 2
MaxCollOps == 2

PqMembers == 1..MaxMembers
PqScores == 1..MaxScore

ZSets == UNION {{ {<<m, f[m]>> : m \in ms} : f \in [ms -> PqScores]} :
                ms \in SUBSET PqMembers}

ZMembers(zs) == {p[1] : p \in zs}

\* The order of a sorted set: by score, then by member.
ZBefore(p, q) == p[2] < q[2] \/ (p[2] = q[2] /\ p[1] <= q[1])

RECURSIVE ZAscending(_)
ZAscending(zs) ==
    IF zs = {} THEN <<>>
    ELSE LET lo == CHOOSE p \in zs : \A q \in zs : ZBefore(p, q)
         IN  <<lo>> \o ZAscending(zs \ {lo})

Reversed(seq) == [i \in 1..Len(seq) |-> seq[Len(seq) + 1 - i]]

Ordered(zs, end) ==
    IF end = "min" THEN ZAscending(zs) ELSE Reversed(ZAscending(zs))

FirstN(seq, n) == SubSeq(seq, 1, Min(n, Len(seq)))

\* ZPOPMIN / ZPOPMAX key count: the count members at that end.
ZPop(zs, end, count) == FirstN(Ordered(zs, end), count)

\* ZRANGE / ZREVRANGE key 0 count-1: index -1 is the last member, so that a
\* count of 0 names the whole set.
ZPeek(zs, end, count) ==
    IF count = 0 THEN Ordered(zs, end) ELSE FirstN(Ordered(zs, end), count)

\* Mutant: an empty reply is not told apart from a reply with members.
PqResultUnchecked(results, count) ==
    IF count = 1 THEN [form |-> "item", items |-> FirstN(results, 1)]
    ELSE [form |-> "list", items |-> results]

\* if not results: return None if count == 1 else []
\* return items[0] if count == 1 else items
PqResult(results, count) ==
    IF results = <<>>
    THEN IF count = 1 THEN NoItems ELSE [form |-> "list", items |-> <<>>]
    ELSE IF count = 1 THEN [form |-> "item", items |-> <<results[1]>>]
    ELSE [form |-> "list", items |-> results]

\* items[0] of an empty reply
PqRaises(ret) == ret.form = "item" /\ ret.items = <<>>

CollFrame == UNCHANGED <<CoreVars, ttl, del, nest, call, num, par>>

PqCanCall == coll.on /\ coll.ops < MaxCollOps /\ coll.incr.pc # "checked"

\* apop_min / apop_max
PqPop ==
    /\ PqCanCall
    /\ \E end \in {"min", "max"}, count \in 0..MaxCount :
         LET results == ZPop(coll.zset, end, count)
             ret == PqResult(results, count)
         IN  coll' = [coll EXCEPT
                        !.ops = @ + 1,
                        !.zset = @ \ SeqToSet(results),
                        !.last = [op |-> "pop", count |-> count,
                                  before |-> coll.zset, ret |-> ret,
                                  err |-> IF PqRaises(ret) THEN "IndexError"
                                          ELSE "none"]]
    /\ CollFrame

\* apeek_min / apeek_max
PqPeek ==
    /\ PqCanCall
    /\ \E end \in {"min", "max"}, count \in 0..MaxCount :
         LET results == ZPeek(coll.zset, end, count)
             ret == PqResult(results, count)
         IN  coll' = [coll EXCEPT
                        !.ops = @ + 1,
                        !.last = [op |-> "peek", count |-> count,
                                  before |-> coll.zset, ret |-> ret,
                                  err |-> IF PqRaises(ret) THEN "IndexError"
                                          ELSE "none"]]
    /\ CollFrame

\* aremove, by this task or by another one: ZREM.
PqRemove ==
    /\ coll.on
    /\ coll.ops < MaxCollOps
    /\ \E m \in PqMembers :
         coll' = [coll EXCEPT
                    !.ops = @ + 1,
                    !.zset = {p \in @ : p[1] # m},
                    !.last = [op |-> "remove", count |-> 1,
                              before |-> coll.zset, ret |-> NoItems,
                              err |-> "none"]]
    /\ CollFrame

\* aincrement_priority, first await: acontains (ZSCORE); None when the
\* member is not there.
PqIncrCheck ==
    /\ PqCanCall
    /\ coll.incr.pc = "idle"
    /\ \E m \in PqMembers :
         coll' = [coll EXCEPT
                    !.ops = @ + 1,
                    !.incr = [pc |-> IF m \in ZMembers(coll.zset)
                                     THEN "checked" ELSE "done",
                              item |-> m, seen |-> coll.zset,
                              ret |-> <<>>]]
    /\ CollFrame

\* aincrement_priority, second await: ZINCRBY key 1 member, which adds a
\* member that is not in the set with the increment as its score.
PqIncrBy ==
    /\ coll.on
    /\ coll.incr.pc = "checked"
    /\ LET m == coll.incr.item
           old == IF m \in ZMembers(coll.zset)
                  THEN (CHOOSE p \in coll.zset : p[1] = m)[2] ELSE 0
       IN  coll' = [coll EXCEPT
                      !.zset = {p \in @ : p[1] # m} \cup {<<m, old + 1>>},
                      !.incr = [pc |-> "done", item |-> m,
                                seen |-> coll.zset, ret |-> <<old + 1>>]]
    /\ CollFrame

\* AtomicRedisModel.adelete: DEL of the key of the document.
PqModelAdelete ==
    /\ coll.on
    /\ coll.doc
    /\ coll.incr.pc # "checked"
    /\ coll' = [coll EXCEPT !.doc = FALSE,
                            !.last = [op |-> "adelete", count |-> 0,
                                      before |-> coll.zset, ret |-> NoItems,
                                      err |-> "none"]]
    /\ CollFrame

InitPq ==
    /\ InitScope
    /\ serverScripts = AllShas
    /\ cfg = [ignore |-> FALSE, refresh |-> FALSE]
    /\ sha = ShaIdle
    /\ inc = IncIdle
    /\ ttl = TtlIdle
    /\ del = DelIdle
    /\ nest = NestIdle
    /\ call = CallIdle
    /\ num = NumIdle
    /\ par = ParIdle
    /\ \E zs \in ZSets :
         coll = [CollIdle EXCEPT !.on = TRUE, !.doc = TRUE, !.zset = zs]

NextPq ==
    \/ PqPop
    \/ PqPeek
    \/ PqRemove
    \/ PqIncrCheck
    \/ PqIncrBy
    \/ PqModelAdelete

SpecPq == InitPq /\ [][NextPq]_vars

\* --------------------------------------------- RedisDict.apop and apopitem
\* The map field in the stored document and the in-process dict, each a set
\* of <<key, value>> with one value per key.
MaxMapKeys == 2
MaxDictOps == 2

MapKeys == 1..MaxMapKeys
MapValues == {7, 8}
Default == 0

Maps == UNION {{ {<<k, f[k]>> : k \in ks} : f \in [ks -> MapValues]} :
               ks \in SUBSET MapKeys}

MapDomain(m) == {p[1] : p \in m}

MapWithout(m, key) == {p \in m : p[1] # key}

\* The "dict pop" script: removes the key and returns its value, nil when
\* the key is not in the map.
DictPopScript(m, key) ==
    IF key \in MapDomain(m)
    THEN [reply |-> <<(CHOOSE p \in m : p[1] = key)[2]>>,
          map |-> MapWithout(m, key)]
    ELSE [reply |-> <<>>, map |-> m]

\* The "dict popitem" script: removes one pair and returns it, nil when the
\* map is empty.
DictPopitemScript(m) ==
    IF m = {} THEN {[reply |-> <<>>, map |-> m]}
    ELSE {[reply |-> p, map |-> m \ {p}] : p \in m}

\* Mutant: an empty map gives the absent result, as for the other pops.
PopitemOfNilReturns(reply) == "none"

\* if result is not None: ... else: raise KeyError(...)
PopitemOfNil(reply) == "KeyError"

\* RedisDict.apop
DictApop ==
    /\ coll.on
    /\ coll.ops < MaxDictOps
    /\ \E key \in MapKeys :
         LET out == DictPopScript(coll.map, key)
         IN  coll' = [coll EXCEPT
                        !.ops = @ + 1,
                        !.map = out.map,
                        !.lmap = MapWithout(@, key),
                        !.dlast = [op |-> "apop", key |-> key,
                                   before |-> coll.map,
                                   lbefore |-> coll.lmap,
                                   ret |-> IF out.reply = <<>>
                                           THEN <<Default>> ELSE out.reply,
                                   err |-> "none"]]
    /\ CollFrame

\* RedisDict.apopitem; dict.pop(redis_key) raises KeyError when the
\* in-process dict does not hold the key that the store gave up.
DictApopitem ==
    /\ coll.on
    /\ coll.ops < MaxDictOps
    /\ \E out \in DictPopitemScript(coll.map) :
         LET nil == out.reply = <<>>
             key == IF nil THEN 0 ELSE out.reply[1]
             exc == IF nil THEN PopitemOfNil(out.reply)
                    ELSE IF key \in MapDomain(coll.lmap) THEN "none"
                    ELSE "KeyError"
         IN  coll' = [coll EXCEPT
                        !.ops = @ + 1,
                        !.map = out.map,
                        !.lmap = MapWithout(@, key),
                        !.dlast = [op |-> "apopitem", key |-> key,
                                   before |-> coll.map,
                                   lbefore |-> coll.lmap,
                                   ret |-> IF nil \/ exc # "none"
                                           THEN <<>> ELSE <<out.reply[2]>>,
                                   err |-> exc]]
    /\ CollFrame

InitDict ==
    /\ InitScope
    /\ serverScripts = AllShas
    /\ cfg = [ignore |-> FALSE, refresh |-> FALSE]
    /\ sha = ShaIdle
    /\ inc = IncIdle
    /\ ttl = TtlIdle
    /\ del = DelIdle
    /\ nest = NestIdle
    /\ call = CallIdle
    /\ num = NumIdle
    /\ par = ParIdle
    /\ \E m \in Maps, l \in Maps :
         coll = [CollIdle EXCEPT !.on = TRUE, !.doc = TRUE, !.map = m,
                                 !.lmap = l]

NextDict ==
    \/ DictApop
    \/ DictApopitem

SpecDict == InitDict /\ [][NextDict]_vars

\* ------------------------------------------- loading pickled fields (aget)
\* A stored document with MaxPickled pickled fields and one plain field. A
\* pickled field is stored as null, as the base64 of the pickle of its value,
\* or as something that base64/pickle cannot decode; it is declared tolerant
\* (SafeLoad, or Meta.safe_load_all) or strict, and its type admits None, as
\* in every model of tests/models/safe_load_types.py.
MaxPickled == 2

PickledValues == {11, 12}
PlainValues == {"test", "other"}

Encoded(v) == <<"b64", v>>

StoredForms == {<<"null">>, <<"corrupt">>} \cup {Encoded(v) : v \in PickledValues}

PickledFields == [1..MaxPickled -> [stored : StoredForms, safe : BOOLEAN]]

Undecodable(stored) == stored = <<"corrupt">>

\* pickle.loads(base64.b64decode(v)), for a v that decodes
Decoded(stored) == stored[2]

\* Mutant: the strict policy also gives None and records the field.
ValidatorAlwaysTolerant(stored, safe) ==
    IF stored = <<"null">> THEN [val |-> <<>>, failed |-> FALSE, exc |-> "none"]
    ELSE IF Undecodable(stored)
    THEN [val |-> <<>>, failed |-> TRUE, exc |-> "none"]
    ELSE [val |-> <<Decoded(stored)>>, failed |-> FALSE, exc |-> "none"]

\* pickle_field_validator with the redis-dump flag in the context: the value
\* of the field (<<>> is None), whether its name goes into failed_fields,
\* and the exception raised.
PickleFieldValidator(stored, safe) ==
    IF stored = <<"null">> THEN [val |-> <<>>, failed |-> FALSE, exc |-> "none"]
    ELSE IF Undecodable(stored)
    THEN IF safe THEN [val |-> <<>>, failed |-> TRUE, exc |-> "none"]
         ELSE [val |-> <<>>, failed |-> FALSE,
               exc |-> "CantSerializeRedisValueError"]
    ELSE [val |-> <<Decoded(stored)>>, failed |-> FALSE, exc |-> "none"]

\* model_validate over the fields in declaration order: the first exception
\* of a validator that is no ValueError ends the validation.
ModelValidate(fields, plain) ==
    LET out == [i \in 1..Len(fields) |->
                  PickleFieldValidator(fields[i].stored, fields[i].safe)]
        bad == {i \in 1..Len(fields) : out[i].exc # "none"}
    IN  IF bad # {}
        THEN [exc |-> out[CHOOSE i \in bad : \A j \in bad : i <= j].exc,
              vals |-> <<>>, plain |-> "", failed |-> {}]
        ELSE [exc |-> "none",
              vals |-> [i \in 1..Len(fields) |-> out[i].val],
              plain |-> plain,
              failed |-> {i \in 1..Len(fields) : out[i].failed}]

\* aget, JSON.GET of the document: KeyNotFound when there is none.
AgetFetch ==
    /\ call.fn = "aget"
    /\ call.pc = "start"
    /\ call' = [call EXCEPT
                  !.pc = IF call.present = {} THEN "raised" ELSE "validate",
                  !.err = IF call.present = {} THEN "KeyNotFound" ELSE "none",
                  !.sent = <<"JSON.GET">>]
    /\ CallFrame

\* aget, from model_validate to the return of the instance.
AgetValidate ==
    /\ call.fn = "aget"
    /\ call.pc = "validate"
    /\ LET r == ModelValidate(call.args, call.by)
       IN  call' = [call EXCEPT
                      !.pc = IF r.exc = "none" THEN "done" ELSE "raised",
                      !.err = r.exc,
                      !.result = IF r.exc = "none" THEN <<r>> ELSE <<>>]
    /\ CallFrame

InitLoad ==
    /\ InitScope
    /\ serverScripts = AllShas
    /\ cfg = [ignore |-> FALSE, refresh |-> FALSE]
    /\ sha = ShaIdle
    /\ inc = IncIdle
    /\ ttl = TtlIdle
    /\ del = DelIdle
    /\ nest = NestIdle
    /\ num = NumIdle
    /\ coll = CollIdle
    /\ par = ParIdle
    /\ \E fields \in PickledFields, plain \in PlainValues,
          present \in {{}, {1}} :
         call = [CallIdle EXCEPT !.fn = "aget", !.pc = "start",
                                 !.args = fields, !.by = plain,
                                 !.present = present]

NextLoad ==
    \/ AgetFetch
    \/ AgetValidate

SpecLoad == InitLoad /\ [][NextLoad]_vars

\* ------------------------------------------ alock / alock_from_key scopes
\* Tasks that each run one locked read-modify-write:
\*   async with Model.alock_from_key(key, action, save_at_end=True) as m:
\*       m.n += 1
MaxLockTasks == 3

LockTasks == 1..MaxLockTasks
LockKeys == {"Doc:a", "Doc:b"}
LockActions == {"default", "update"}

\* acquire_lock(redis, f"{key}/{action}"): lock_key = f"{key}:lock"
LockName(key, action) == (key \o "/" \o action) \o ":lock"

LockHolders(locks, name) == {l[2] : l \in {h \in locks : h[1] = name}}

\* Mutant: SET without NX.
LockIsFreeAlways(locks, name) == TRUE

\* Lock.acquire: SET name token NX succeeds when the name is not set.
LockIsFree(locks, name) == LockHolders(locks, name) = {}

ParFrame == UNCHANGED <<CoreVars, ttl, del, nest, call, num, coll>>

LockNameOf(t) == LockName(par.tasks[t].key, par.tasks[t].action)

\* Lock.acquire, one attempt; a failed attempt sleeps and tries again.
LockAcquire ==
    /\ par.on
    /\ \E t \in LockTasks :
       /\ par.tasks[t].pc \in {"start", "waiting"}
       /\ IF LockIsFree(par.locks, LockNameOf(t))
          THEN par' = [par EXCEPT !.locks = @ \cup {<<LockNameOf(t), t>>},
                                  !.tasks[t].pc = "locked"]
          ELSE par' = [par EXCEPT
                         !.tasks[t].pc = "waiting",
                         !.tasks[t].blockedBy =
                             CHOOSE h \in LockHolders(par.locks, LockNameOf(t)) :
                                 TRUE]
       /\ ParFrame

\* redis_model = await cls.aget(key), then the body of the scope.
LockRead ==
    /\ par.on
    /\ \E t \in LockTasks :
       /\ par.tasks[t].pc = "locked"
       /\ par' = [par EXCEPT !.tasks[t].pc = "read",
                             !.tasks[t].local = par.doc[par.tasks[t].key] + 1]
       /\ ParFrame

\* await redis_model.asave()
LockSave ==
    /\ par.on
    /\ \E t \in LockTasks :
       /\ par.tasks[t].pc = "read"
       /\ par' = [par EXCEPT !.tasks[t].pc = "saved",
                             !.doc[par.tasks[t].key] = par.tasks[t].local]
       /\ ParFrame

\* Lock.release at the exit of the scope: deletes the name if the token is
\* the one of this lock object.
LockRelease ==
    /\ par.on
    /\ \E t \in LockTasks :
       /\ par.tasks[t].pc = "saved"
       /\ par' = [par EXCEPT !.locks = @ \ {<<LockNameOf(t), t>>},
                             !.tasks[t].pc = "done"]
       /\ ParFrame

InitLock ==
    /\ InitScope
    /\ serverScripts = AllShas
    /\ cfg = [ignore |-> FALSE, refresh |-> FALSE]
    /\ sha = ShaIdle
    /\ inc = IncIdle
    /\ ttl = TtlIdle
    /\ del = DelIdle
    /\ nest = NestIdle
    /\ call = CallIdle
    /\ num = NumIdle
    /\ coll = CollIdle
    /\ \E ks \in [LockTasks -> LockKeys], as \in [LockTasks -> LockActions] :
         par = [ParIdle EXCEPT
                  !.on = TRUE,
                  !.doc = [k \in LockKeys |-> InitialN],
                  !.tasks = [t \in LockTasks |->
                               [pc |-> "start", key |-> ks[t],
                                action |-> as[t], local |-> 0,
                                blockedBy |-> 0]]]

NextLock ==
    \/ LockAcquire
    \/ LockRead
    \/ LockSave
    \/ LockRelease

SpecLock == InitLock /\ [][NextLock]_vars

\* ------------------------------------ the context variable, task by task
\* asyncio tasks of one process. _context_var is a contextvars.ContextVar:
\* every task reads and sets its own copy, which it got from the task that
\* started it, as it was at that moment. Task 1 runs from the start, the
\* others are started in the order of their numbers; task t opens at most
\* one scope, whose pipeline is pipeline t.
MaxCtxTasks == 3

CtxTasks == 1..MaxCtxTasks

PipeOf(t) == <<"pipe", t>>

\* Mutant: one module-level variable for all tasks.
CtxSeenShared(t) == par.shared

\* _context_var.get() in task t
CtxSeenBy(t) == par.tasks[t].ctx

\* asyncio.create_task / gather: the new task copies the context of the
\* task that starts it. A task started while its starter runs inside the
\* open scope of pipeline p belongs to the call chain of that scope.
CtxSpawn ==
    /\ par.on
    /\ \E t \in CtxTasks, c \in CtxTasks :
       /\ par.tasks[t].alive
       /\ ~par.tasks[c].alive
       /\ \A d \in 1..(c - 1) : par.tasks[d].alive
       /\ LET seen == CtxSeenBy(t)
              inside == {p \in CtxTasks : seen = PipeOf(p) /\ par.pipes[p].open}
          IN  par' = [par EXCEPT
                        !.tasks[c].alive = TRUE,
                        !.tasks[c].ctx = seen,
                        !.pipes = [p \in CtxTasks |->
                                     IF p \in inside
                                     THEN [@[p] EXCEPT !.chain = @ \cup {c}]
                                     ELSE @[p]]]
       /\ ParFrame

\* apipeline, entry: pipe_prev = _context_var.set(pipe)
CtxEnter ==
    /\ par.on
    /\ \E t \in CtxTasks :
       /\ par.tasks[t].alive
       /\ par.tasks[t].scope = "no"
       /\ par' = [par EXCEPT
                    !.tasks[t].scope = "open",
                    !.tasks[t].ctx = PipeOf(t),
                    !.shared = PipeOf(t),
                    !.pipes[t] = [open |-> TRUE, stack |-> {},
                                  chain |-> {t}]]
       /\ ParFrame

\* __setattr__ of a field in task t: with a pipeline in the context variable
\* the JSON.SET is recorded into it (stack: the tasks that issued one);
\* with nothing there, nothing is sent; with the Token that a finished
\* scope left there, AttributeError.
CtxMutate ==
    /\ par.on
    /\ \E t \in CtxTasks :
       /\ par.tasks[t].alive
       /\ ~par.tasks[t].mutated
       /\ LET seen == CtxSeenBy(t)
          IN  par' = [par EXCEPT
                        !.tasks[t].mutated = TRUE,
                        !.pipes = [p \in CtxTasks |->
                                     IF seen = PipeOf(p)
                                     THEN [@[p] EXCEPT !.stack = @ \cup {t}]
                                     ELSE @[p]]]
       /\ ParFrame

\* apipeline, exit: after a flush that succeeds _context_var.set(pipe_prev)
\* stores the Token; on an error the variable keeps the pipeline.
CtxExit ==
    /\ par.on
    /\ \E t \in CtxTasks, ok \in BOOLEAN :
       /\ par.tasks[t].scope = "open"
       /\ par' = [par EXCEPT
                    !.tasks[t].scope = "closed",
                    !.tasks[t].ctx = IF ok THEN <<"token">> ELSE @,
                    !.shared = IF ok THEN <<"token">> ELSE @,
                    !.pipes[t].open = FALSE]
       /\ ParFrame

InitCtx ==
    /\ InitScope
    /\ serverScripts = AllShas
    /\ cfg = [ignore |-> FALSE, refresh |-> FALSE]
    /\ sha = ShaIdle
    /\ inc = IncIdle
    /\ ttl = TtlIdle
    /\ del = DelIdle
    /\ nest = NestIdle
    /\ call = CallIdle
    /\ num = NumIdle
    /\ coll = CollIdle
    /\ par = [ParIdle EXCEPT
                !.on = TRUE,
                !.tasks = [t \in CtxTasks |->
                             [alive |-> t = 1, ctx |-> <<"none">>,
                              scope |-> "no", mutated |-> FALSE]],
                !.pipes = [p \in CtxTasks |->
                             [open |-> FALSE, stack |-> {}, chain |-> {}]]]

NextCtx ==
    \/ CtxSpawn
    \/ CtxEnter
    \/ CtxMutate
    \/ CtxExit

SpecCtx == InitCtx /\ [][NextCtx]_vars

\* ------------------------------------------------------------------ claims
\* The document the body's operations yield when applied, in program order
\* and with Python's semantics, to the document fetched at scope entry.
Expected == PyFold(loaded, opsLog, 1)

\* C1: a read issued outside the scope while it is open and has buffered a
\* mutation returns the document as it was before the mutation; the first
\* read after the scope has exited returns the mutated values (the wrapper's
\* local n, the list with the body's operations applied).
C1_ReadsSeeCommittedState ==
    /\ (lastRead.during /\ lastRead.nbuf > 0 /\ lastRead.ddoc.exists)
           => lastRead.ddoc = loaded
    /\ (lastRead.after /\ pc = "closed" /\ lastRead.adoc.exists)
           => /\ lastRead.adoc.n = localN
              /\ lastRead.adoc.tags = Expected.tags

C1_Witness ==
    /\ lastRead.during /\ lastRead.nbuf > 0 /\ lastRead.ddoc.exists
    /\ lastRead.after /\ pc = "closed" /\ lastRead.adoc.exists
    /\ lastRead.adoc.n # lastRead.ddoc.n
    /\ lastRead.adoc.tags # lastRead.ddoc.tags

\* C2: at every instant the stored document shows the effects of none of the
\* scope's buffered commands or of all of them.
C2_NoneOrAll ==
    (loaded.exists /\ store.exists)
        => \/ store = loaded
           \/ store = ExecTx(loaded, buf, AllShas).doc

\* C3: when the script cache was cleared while the scope was open, the
\* stored document after the flush is the one the buffered commands produce,
\* in enqueue order, on a server that knows every script.
C3_RecoveredState ==
    (flushes.open /\ atExec.exists)
        => store = ExecTx(atExec, buf, AllShas).doc

C5_ProgramOrder ==
    (pc = "closed" /\ store.exists) => store = Expected

C5_Witness ==
    /\ pc = "closed"
    /\ store.exists
    /\ Len(opsLog) = 2
    /\ opsLog[1].kind = "iadd"
    /\ opsLog[2].kind = "imul"
    /\ store.n = (InitialN + 1) * 2

\* C6: a flush that ends with script-unknown still unrecovered (the server
\* still lacks the scripts) raises PersistentNoScriptError.
C6_PersistentError ==
    (pc = "raised" /\ sawNoScript /\ serverScripts = {})
        => err = "PersistentNoScriptError"

\* C7: a flush that met script-unknown terminates with success or with the
\* persistent-failure error.
C7_SuccessOrPersistent ==
    (pc \in {"closed", "raised"} /\ sawNoScript)
        => err \in {"none", "PersistentNoScriptError"}

\* C9: once the scope has been left, by whatever path, the context variable
\* holds what it held before the scope was entered (nothing).
C9_ContextRestored ==
    pc \in {"closed", "raised"} => ctx = "none"

\* C10 as stated: when the body raises, the commands buffered before the
\* exception have been sent to the server by the time the scope is left.
C10_FlushedOnBodyError ==
    (pc = "raised" /\ err = "BodyError" /\ Len(buf) > 0)
        => Len(applied) = Len(buf)

\* C10 amended: when the body raises, none of the buffered commands is sent:
\* the server ran none and the stored fields are what they were at entry.
C10_DiscardedOnBodyError ==
    (pc = "raised" /\ err = "BodyError")
        => /\ applied = <<>>
           /\ loaded.exists => (store.n = loaded.n /\ store.tags = loaded.tags)

C10_Witness ==
    /\ pc = "raised"
    /\ err = "BodyError"
    /\ Len(buf) >= 2
    /\ store.exists

\* C8: when N concurrent aincrease(1) calls on one field have all returned,
\* the stored value is the initial value plus N.
C8_NoLostUpdate ==
    (\A i \in 1..inc.n : inc.pcs[i] = "done") => inc.val = inc.init + inc.n

C8_Witness ==
    /\ inc.n = MaxTasks
    /\ \A i \in 1..inc.n : inc.pcs[i] = "done"

\* C11: when the task is cancelled while the scope is open, the server ran
\* none of the buffered commands and the stored fields are what they were
\* when the scope was entered.
C11_CancelledSendsNothing ==
    (pc = "raised" /\ err = "CancelledError")
        => /\ applied = <<>>
           /\ atExec = NoDoc
           /\ loaded.exists => (store.n = loaded.n /\ store.tags = loaded.tags)

C11_Witness ==
    /\ pc = "raised"
    /\ err = "CancelledError"
    /\ Len(buf) >= 3
    /\ \E i \in 1..Len(buf) : IsScript(buf[i])
    /\ store.exists
    /\ later = "buffered"

\* C12: the commands the inner scope buffered are committed once it has
\* exited; the commands of the outer scope are uncommitted while it is open
\* and committed by its exit; and a mutation the outer body issues after the
\* inner scope ran is buffered by the outer scope like the ones before it.
C12_NestedScopes ==
    /\ nest.pcI = "closed" => NestIds(nest.bufI) \subseteq nest.applied
    /\ nest.pcO = "open" => NestIds(nest.bufO) \cap nest.applied = {}
    /\ nest.pcO = "closed" => NestIds(nest.bufO) \subseteq nest.applied
    /\ nest.after \in {"none", "buffered"}

\* C13: entering the scope replaces the in-process value by the stored one,
\* so the value the instance holds in the scope is the stored value with the
\* body's operations applied, and after the exit the store holds that value
\* and nothing of what was assigned locally before the entry.
C13_EntryReloads ==
    /\ (pc \in {"open", "closed"} /\ loaded.exists) => localN = Expected.n
    /\ (pc = "closed" /\ store.exists) => store.n = Expected.n

C13_Witness ==
    /\ pc = "closed"
    /\ outside.count > 0
    /\ outside.atEntry \in SetValues
    /\ loaded.n = InitialN
    /\ Len(opsLog) = 1
    /\ opsLog[1].kind = "iadd"
    /\ store.n = InitialN + opsLog[1].a
    /\ store.n # outside.atEntry + opsLog[1].a

C15_RemoveRangeIsSliceDelete ==
    (pc = "closed" /\ Len(opsLog) = 1 /\ opsLog[1].kind = "rr")
        => LET lst == loaded.tags
               n   == Len(lst)
               s   == opsLog[1].a
               e   == opsLog[1].b
               rs  == IF s < 0 THEN (IF n + s < 0 THEN 0 ELSE n + s) ELSE s
               re  == IF e < 0 THEN (IF n + e < 0 THEN 0 ELSE n + e)
                               ELSE (IF e > n THEN n ELSE e)
           IN  /\ store.tags = PySliceDelete(lst, s, e)
               /\ (rs >= n \/ rs >= re) => store.tags = lst
               /\ (rs < n /\ rs < re) => Len(store.tags) = n - (re - rs)

C15_Witness ==
    /\ pc = "closed"
    /\ Len(opsLog) = 1
    /\ opsLog[1].kind = "rr"
    /\ opsLog[1].a = -2
    /\ opsLog[1].b = MaxLen + 2
    /\ loaded.tags = ListOfLen(MaxLen)
    /\ store.tags = ListOfLen(MaxLen - 2)

\* The operations of the TTL policy on the root document.
TtlPolicyOps ==
    {"aget", "afind", "asave", "ainsert", "aupdate", "aincrease", "flush"}

\* C16: for a type with a ttl and refresh enabled, each fetch, batch fetch,
\* save, immediate field mutation and transaction flush on an existing
\* document succeeds and leaves the document with the full ttl.
C16_RefreshedToFullTtl ==
    (/\ ttl.cfg.ttl # 0
     /\ ttl.cfg.refresh
     /\ ttl.last.op \in TtlPolicyOps
     /\ ttl.last.touched)
        => /\ ttl.last.ok
           /\ ttl.exp[RootKey] = ttl.cfg.ttl

\* C17: for a type with a ttl and refresh disabled, no operation of the
\* policy leaves a document that had an expiry with a longer one.
C17_NeverExtended ==
    (/\ ttl.cfg.ttl # 0
     /\ ~ttl.cfg.refresh
     /\ ttl.last.op \in TtlPolicyOps \cup {"enter", "nested.asave"}
     /\ ttl.last.touched
     /\ ttl.last.before # NoExpiry)
        => ttl.exp[RootKey] <= ttl.last.before

\* C18: for a type without ttl, nothing but an explicit aset_ttl sets an
\* expiry: every key is without expiry until aset_ttl is called.
C18_NoTtlNoExpiry ==
    ttl.cfg.ttl = 0
        => /\ \A e \in ttl.sent : e.class = "aset_ttl"
           /\ ttl.sent = {} => \A k \in TtlKeys : ttl.exp[k] = NoExpiry

C18_Witness ==
    /\ ttl.cfg.ttl = 0
    /\ ttl.cfg.refresh
    /\ ttl.sent = {}
    /\ {RootKey, PqKey} \subseteq ttl.live
    /\ ttl.last.op = "flush"
    /\ ttl.last.ok

\* C19 as stated: every expiry is set on the key of a root document, and
\* aset_ttl on a nested model raises and sets none.
C19_OnlyRootKeys ==
    /\ \A e \in ttl.sent : e.key = RootKey
    /\ ttl.last.op = "aset_ttl.nested"
           => (~ttl.last.ok /\ ttl.exp[RootKey] = ttl.last.before)

\* C19 amended: every expiry is set on the key of a root document or on the
\* ordered-set key derived from it for a priority-queue field; a nested model
\* has no key of its own to expire, what it expires is the key of its root,
\* and aset_ttl on a nested model raises and sets none.
C19_RootOrDerivedKeys ==
    /\ \A e \in ttl.sent : e.key \in {RootKey, PqKey}
    /\ \A e \in ttl.sent : e.key = PqKey => e.class = "policy"
    /\ OwnKeyOfNested \notin ttl.live
    /\ ttl.exp[OwnKeyOfNested] = NoExpiry
    /\ ttl.last.op = "aset_ttl.nested"
           => (~ttl.last.ok /\ ttl.exp[RootKey] = ttl.last.before)

C19_Witness ==
    /\ [class |-> "policy", key |-> PqKey] \in ttl.sent
    /\ [class |-> "policy", key |-> RootKey] \in ttl.sent
    /\ ttl.last.op = "aset_ttl.nested"
    /\ ~ttl.last.ok
    /\ ttl.exp[RootKey] >= 1

DelCommands == IF del.ctx = "none" THEN del.sent ELSE del.queued

DelCalledInScope == del.inTx \/ del.pc = "flushed"

\* C22: a deletion returns; it reports was_committed = false exactly when it
\* was called inside an open scope, and then every key that existed still
\* exists when it returns and none is left once the scope has exited;
\* called anywhere else it reports true and no key is left when it returns.
C22_CommittedExactlyOutsideScope ==
    del.pc \in {"done", "flushed", "raised"}
        => /\ del.pc # "raised"
           /\ del.committed <=> ~DelCalledInScope
           /\ DelCalledInScope
                => /\ del.atReturn = del.initially
                   /\ del.pc = "flushed" => del.present = {}
           /\ ~DelCalledInScope => del.present = {}

\* Some key of the deletion did not exist when it was called.
DelSomeKeyMissing == del.initially # SeqToSet(del.keys)

C24_RejectedBeforeAnyCommand ==
    (/\ call.fn = "adelete_many"
     /\ call.pc \in {"done", "raised"}
     /\ (call.args = <<>> \/ IsMixed(call.args)))
        => /\ call.pc = "raised"
           /\ call.err = "UnsupportArgumentTypeError"
           /\ call.sent = <<>>
           /\ call.present = call.initially

\* C26: when the flush of a scope has met NOSCRIPT and is over, every
\* scripted command of the buffer has been run once by a retry, and the
\* handle the cache holds for its script, the one a retry is addressed by,
\* is known to the server again.
C26_RetriedByRefreshedHandles ==
    (sawNoScript /\ pc \in {"closed", "raised"})
        => \A i \in 1..Len(buf) :
             IsScript(buf[i])
                 => /\ applied[i] = 1
                    /\ GetScript(buf[i].op) \in serverScripts

\* The retry of an immediate scripted call is addressed by the handle that
\* the re-upload stored in the cache.
ShaRetryByCacheHandle ==
    sha.used # NoSha => sha.used = ScriptSha(ShaScript)

\* C27: once the recovery of an immediate scripted call has returned, every
\* script of the catalog has in the cache the handle that this re-upload
\* obtained for it; no entry keeps the handle it had before.
C27_AllHandlesReplaced ==
    sha.reloads >= 1
        => \A name \in ScriptNames :
             /\ name \in sha.fresh
             /\ shaCache[name] = ScriptSha(name)

C27_Witness ==
    /\ sha.pc = "retry"
    /\ sha.reloads = 1
    /\ \E name \in ScriptNames :
         /\ sha.before[name] = StaleSha(name)
         /\ shaCache[name] = ScriptSha(name)
         /\ name # ShaScript

\* C28: after a scope that applied *=, //=, %= or **= to an integer field
\* has committed, the stored value equals the local value the operator
\* returned, which is Python's result of v op k.
C28_StoreEqualsLocal ==
    num.pc = "closed"
        => /\ num.stored = num.local
           /\ num.local = PyNum(num.op, num.v, num.k)

C28_Witness ==
    /\ num.pc = "closed"
    /\ num.op = "ipow"
    /\ num.k < 0
    /\ LuaNum(num.op, num.v, num.k) # PyNum(num.op, num.v, num.k)
    /\ num.stored = num.local

\* The scope's entry looked for the document and did not find it.
EntryFoundNoDocument == pc \notin {"idle", "entered"} /\ ~loaded.exists

\* C29: when the document is absent at the entry of model.apipeline(), the
\* scope is left with KeyNotFound, no body operation has run and nothing
\* was recorded or sent; under ignore_redis_error the body is given the
\* instance itself, with the values it held before the entry.
C29_MissingKeyAtEntry ==
    EntryFoundNoDocument
        => IF cfg.ignore
           THEN /\ outside.yielded = "self"
                /\ err # "KeyNotFound"
                /\ opsLog = <<>> => localN = outside.atEntry
           ELSE /\ pc = "raised"
                /\ err = "KeyNotFound"
                /\ outside.yielded = "none"
                /\ opsLog = <<>>
                /\ buf = <<>>
                /\ applied = <<>>
                /\ store = loaded

C29_Witness ==
    /\ EntryFoundNoDocument
    /\ ~cfg.ignore
    /\ pc = "raised"
    /\ err = "KeyNotFound"
    /\ lastRead.after
    /\ ~lastRead.adoc.exists

\* The positions of the requested keys that name a stored document.
FindStored(args) ==
    LET Stored(i) == args[i] \in {"present", "invalid"}
    IN  SelectSeq(ListOfLen(Len(args)), Stored)

FindOver == call.fn = "afind" /\ call.pc \in {"done", "raised"}

\* C30 as stated: afind over several keys of which at least one has no
\* stored document ends with KeyNotFound and no result, and with
\* skip_missing it returns the stored documents, in request order.
C30_AbortsOrReturnsStored ==
    (/\ FindOver
     /\ Len(call.args) >= 2
     /\ FindStored(call.args) # ListOfLen(Len(call.args)))
        => IF call.skip
           THEN call.pc = "done" /\ call.result = FindStored(call.args)
           ELSE /\ call.pc = "raised"
                /\ call.err = "KeyNotFound"
                /\ call.result = <<>>

\* C30, amended: when every key has the prefix of a registered type and one
\* of them has no document, the call ends with KeyNotFound and no result
\* unless skip_missing is set, and then it returns, in request order, the
\* stored documents that validate; a key with an unregistered prefix ends
\* the call with the unknown-model error in either mode, before any command.
C30_AbortsOrReturnsValid ==
    (FindOver /\ FindStored(call.args) # ListOfLen(Len(call.args)))
        => IF \E i \in 1..Len(call.args) : call.args[i] = "unknown"
           THEN /\ call.pc = "raised"
                /\ call.err = "RapyerModelDoesntExistError"
                /\ call.sent = <<>>
                /\ call.result = <<>>
           ELSE IF call.skip
           THEN call.pc = "done" /\ call.result = Built(call.args)
           ELSE /\ call.pc = "raised"
                /\ call.err = "KeyNotFound"
                /\ call.result = <<>>

C30_Witness ==
    /\ FindOver
    /\ call.skip
    /\ call.pc = "done"
    /\ Len(call.args) = 3
    /\ call.args[2] = "absent"
    /\ call.result = <<1, 3>>

ClsFindOver == call.fn = "Model.afind" /\ call.pc \in {"done", "raised"}

\* C31: Model.afind with explicit keys of which some or all have no
\* document returns the documents that exist and does not raise.
C31_MissingKeysLeftOut ==
    (/\ ClsFindOver
     /\ call.by = "keys"
     /\ \E i \in 1..Len(call.args) : call.args[i] = "absent")
        => call.pc = "done" /\ call.result = FindStored(call.args)

\* Keys found by a search or by KEYS that have gone by the time of the MGET
\* are left out without an error.
ClsFindLooseKeysLeftOut ==
    (ClsFindOver /\ call.by # "keys")
        => call.pc = "done" /\ call.result = Built(call.args)

\* C32: pop and peek on an empty queue do not raise; with count = 1 they
\* return None, with another count the empty list, and the queue stays empty.
C32_EmptyPopPeek ==
    (coll.last.op \in {"pop", "peek"} /\ coll.last.before = {})
        => /\ coll.last.err = "none"
           /\ coll.last.ret = IF coll.last.count = 1 THEN NoItems
                              ELSE [form |-> "list", items |-> <<>>]
           /\ coll.zset = {}

C32_Witness ==
    /\ coll.last.op = "pop"
    /\ coll.last.before = {}
    /\ coll.last.count = 1
    /\ coll.last.ret = NoItems
    /\ coll.ops = 2

C34_QueueKeyGoneWithParent ==
    (coll.on /\ coll.last.op = "adelete" /\ ~coll.doc) => coll.zset = {}

\* The flush of the scope reached the server and its execute() raised a
\* store error that is not script-unknown.
FlushStoreError ==
    /\ applied # <<>>
    /\ ~sawNoScript
    /\ FirstError(ExecTx(atExec, buf, AllShas).res) = "ERR"

\* C35: a store error other than script-unknown raised by the flush leaves
\* the scope as ResponseError when ignore_redis_error is false, and is
\* swallowed, the scope ending normally, when it is true.
C35_FlushErrorByPolicy ==
    FlushStoreError
        => IF cfg.ignore THEN pc = "closed" /\ err = "none"
           ELSE pc = "raised" /\ err = "ResponseError"

\* The half of C35 that the code keeps: without ignore_redis_error the
\* error of the store reaches the caller of the scope.
FlushErrorPropagates ==
    (FlushStoreError /\ ~cfg.ignore) => pc = "raised" /\ err = "ResponseError"

LoadOver == call.fn = "aget" /\ call.pc \in {"done", "raised"} /\ call.present # {}

CorruptFields == {i \in 1..Len(call.args) : Undecodable(call.args[i].stored)}

\* C36: a load of a document with a field that cannot be decoded succeeds
\* when every such field is tolerant: each of them is None and in
\* failed_fields, nothing else is in failed_fields, and every other field has
\* its stored value; when such a field is strict the load raises
\* CantSerializeRedisValueError.
C36_TolerantNullsStrictRaises ==
    (LoadOver /\ CorruptFields # {})
        => IF \A i \in CorruptFields : call.args[i].safe
           THEN /\ call.pc = "done"
                /\ call.result[1].failed = CorruptFields
                /\ \A i \in CorruptFields : call.result[1].vals[i] = <<>>
                /\ \A i \in (1..Len(call.args)) \ CorruptFields :
                     call.result[1].vals[i] =
                        IF call.args[i].stored = <<"null">> THEN <<>>
                        ELSE <<call.args[i].stored[2]>>
                /\ call.result[1].plain = call.by
           ELSE /\ call.pc = "raised"
                /\ call.err = "CantSerializeRedisValueError"
                /\ call.result = <<>>

C36_Witness ==
    /\ LoadOver
    /\ call.pc = "done"
    /\ call.args[1].stored = <<"corrupt">>
    /\ call.args[2].stored = Encoded(12)
    /\ call.result[1].failed = {1}
    /\ call.result[1].vals = << <<>>, <<12>> >>

LockInside(t) == par.tasks[t].pc \in {"locked", "read", "saved"}

LockPair(t) == <<par.tasks[t].key, par.tasks[t].action>>

\* C37: two tasks are never inside the scope of one (key, action) pair at
\* once; a task is kept waiting only by a holder of its own pair; and when
\* every task used one pair and all have finished, no increment is lost.
C37_OneTaskPerPair ==
    par.on =>
      /\ \A t, u \in LockTasks :
           (t # u /\ LockInside(t) /\ LockInside(u)) => LockPair(t) # LockPair(u)
      /\ \A t \in LockTasks :
           par.tasks[t].blockedBy # 0
              => LockPair(par.tasks[t].blockedBy) = LockPair(t)
      /\ ((\A t \in LockTasks : par.tasks[t].pc = "done" /\ LockPair(t) = LockPair(1))
              => par.doc[par.tasks[1].key] = InitialN + MaxLockTasks)

\* Two tasks inside at once on one key under different actions, a third
\* waiting for one of them.
C37_Witness ==
    /\ par.on
    /\ LockInside(1)
    /\ LockInside(2)
    /\ par.tasks[1].key = par.tasks[2].key
    /\ par.tasks[1].action # par.tasks[2].action
    /\ par.tasks[3].pc = "waiting"

\* C38: an open transaction is seen only by the task that opened it and by
\* tasks started from inside its scope; the commands recorded in it were all
\* issued by those tasks.
C38_ScopeSeenOnlyInItsChain ==
    par.on =>
      \A p \in CtxTasks :
        par.pipes[p].open =>
          /\ \A t \in CtxTasks :
               (par.tasks[t].alive /\ par.tasks[t].ctx = PipeOf(p))
                  => t \in par.pipes[p].chain
          /\ par.pipes[p].stack \subseteq par.pipes[p].chain

\* Task 2, started before task 1 opened its scope, has issued its mutation
\* while that scope is open and holds a command of task 1 only.
C38_Witness ==
    /\ par.on
    /\ par.pipes[1].open
    /\ par.pipes[1].stack = {1}
    /\ par.tasks[2].alive
    /\ par.tasks[2].mutated
    /\ par.tasks[2].ctx = <<"none">>
    /\ 2 \notin par.pipes[1].chain

\* C39: when aincrement_priority has returned and the member was not in the
\* queue as its last command ran, it returned None and the member is not in
\* the queue.
C39_AbsentItemNeverAdded ==
    (/\ coll.on
     /\ coll.incr.pc = "done"
     /\ coll.incr.item \notin ZMembers(coll.incr.seen))
        => /\ coll.incr.ret = <<>>
           /\ coll.incr.item \notin ZMembers(coll.zset)

\* The call returns None only when its own check found the member absent,
\* and then it sends no ZINCRBY.
IncrNoneOnlyWhenCheckedAbsent ==
    (/\ coll.on
     /\ coll.incr.pc = "done"
     /\ coll.incr.ret = <<>>)
        => coll.incr.item \notin ZMembers(coll.incr.seen)

ShaRecoveryBounded ==
    /\ sha.attempts <= 2
    /\ sha.reloads <= 1
    /\ sha.pc = "raised"
           => (sha.attempts = 2 /\ sha.err = "PersistentNoScriptError")
    /\ sha.pc = "done" => sha.err = "none"

====
